---- MODULE Spec2Model ----
(***************************************************************************)
(* Stingyclaw: the agent runner (container/agent-runner, the worker), its  *)
(* file mailbox (writeIpcFile / drainIpcInput / shouldClose), its session  *)
(* store (loadSession / saveSession) and the host's queue controller.      *)
(*                                                                         *)
(* The specifications of this module:                                      *)
(*   Spec      one conversation: the host spawns worker processes, writes  *)
(*             follow-up messages and the close sentinel; the worker runs  *)
(*             main() and runQuery().                                      *)
(*   SpecIpc   one mailbox directory: a writer running writeIpcFile step   *)
(*             by step (and killed at any step) against a reader that      *)
(*             lists, reads and unlinks the way drainIpcInput does.        *)
(*   SpecQueue the queue controller (src/group-queue.ts is not among the   *)
(*             sources; it is modelled from the specification text).       *)
(*   SpecRestart  Spec with a second invocation after the first has exited.*)
(*   SpecDrain    drainIpcInput run file by file over an inbound directory *)
(*                holding messages, other records and malformed files.     *)
(*   SpecTools    Spec with the model choosing the tools send_message,     *)
(*                send_voice and ask_boss, and the backend chosen from the *)
(*                secrets on stdin.                                        *)
(*   SpecSearch   search_tools over every small registry and every cache   *)
(*                file the registry can find beside it.                    *)
(*   SpecCache    search_tools between edits of the registry file.         *)
(*   SpecRemoval  search_tools between removals and additions of entries.   *)
(*   SpecTasks    list_tasks over every small tasks snapshot, for a main    *)
(*                and a non-main group.                                     *)
(*   SpecLoop     one worker and one prompt whose query can run all of its  *)
(*                MAX_TOOL_ITERATIONS iterations.                           *)
(*   SpecLoopFair SpecLoop in which every model call and tool call returns. *)
(*   SpecDispatch one worker whose model calls tools of every name with     *)
(*                every kind of argument text.                              *)
(*   SpecStale    one worker started on an inbound directory in which an    *)
(*                earlier worker left the close sentinel.                   *)
(*   SpecVoice    the host's transcribeVoiceMessage, step by step, over     *)
(*                every outcome of the voice service and of the download.   *)
(*   SpecVersion  the host's getWhatsAppVersion and fetchAndPersistVersion  *)
(*                over every state of store/wa-version.json.                *)
(*                                                                         *)
(* File names are sequences of character codes, so that endsWith('.json')  *)
(* and the lexicographic sort() of drainIpcInput are computed on the name  *)
(* itself.                                                                 *)
(***************************************************************************)
EXTENDS Integers, Sequences, FiniteSets, TLC

\* ------------------------------------------------------------------ bounds
\* the clock (Date.now()) takes the values 1..MaxClock
MaxClock == 2
\* number of distinct values of the random suffix of a file name
NRand == 2
\* follow-up messages the host writes during one behaviour
MaxFollowUps == 1
\* model calls (chat.completions.create) during one behaviour
MaxModelCalls == 2
\* tool calls one model response may request
MaxToolCalls == 1
\* worker processes the host starts during one behaviour
MaxInvocations == 2
\* close sentinels the host writes during one behaviour
MaxCloses == 1
\* writeIpcFile calls during one behaviour
MaxWrites == 2
\* writer processes killed during one behaviour
MaxKills == 1
\* pieces in which writeFileSync puts a file's text on disk
MsgChunks == 1
\* conversations
NConvs == 3
\* Work Units admitted during one behaviour
MaxUnits == 2
\* largest configured value of the global concurrency cap
MaxConcurrent == 2
\* worker exits with failure during one behaviour
MaxFailures == 6
\* the same, in behaviours that admit one Work Unit more
MaxFewFailures == 1

\* files the host writes to the inbound directory of the drain specification
MaxInbound == 2
\* distinct description texts of registry entries
NDescs == 2
\* distinct query texts
NQueries == 2
\* changes made to registry.json during one behaviour
MaxEdits == 1
\* tasks of the tasks snapshot
MaxTasks == 2
\* tool calls with free names and arguments in a behaviour
MaxDispatches == 1
\* iterations at either end of a long query in which the model answers freely
EdgeIters == 1
\* characters of a transcript
MaxChars == 3
\* bytes of a downloaded voice note
MaxBytes == 2
\* voice notes in a behaviour
MaxVoice == 2
\* calls of fetchAndPersistVersion in a behaviour
MaxFetches == 2
\* groups
NGroups == 2

\* ------------------------------------------------------- program constants
MAX_TOOL_ITERATIONS == 60
\* runQuery: `session.messages.length > 10` and `slice(-10)`
TRIM_KEEP == 10
\* executeTool: the result strings of send_message, send_voice and ask_boss
\* ('Message sent.', 'Voice message queued for sending.', 'Question sent. ...')
RESULT_MESSAGE_SENT == 601
RESULT_VOICE_QUEUED == 602
RESULT_QUESTION_SENT == 603
\* executeTool 715, 795, 799, 804, 587: the fixed parts of the other results
RESULT_TASK_SCHEDULED == 604
RESULT_REQUESTED_FOR_TASK == 605
RESULT_UNKNOWN_TOOL == 606
RESULT_ERROR_EXECUTING == 607
RESULT_EXIT_ERROR == 608
\* main: the literals 'ollama' and 'no-key', the default models and base URLs
OLLAMA == 9001
NO_KEY == 9002
GEMINI_BASE_URL == 9011
OPENROUTER_BASE_URL == 9012
OLLAMA_BASE_URL == 9013
GEMINI_DEFAULT_MODEL == 9021
OPENROUTER_DEFAULT_MODEL == 9022
OLLAMA_DEFAULT_MODEL == 9023
\* semanticSearch: topK = 4, and the threshold 0.3 as a fraction
TOP_K == 4
THRESHOLD_NUM == 3
THRESHOLD_DEN == 10
\* group-queue: retry ceiling, and the first retry delay in seconds
MAX_RETRIES == 5
BASE_RETRY_SECONDS == 5

\* ------------------------------------------------------------ file names
\* '.json'
JSON_EXT == <<46, 106, 115, 111, 110>>
\* '.tmp'
TMP_EXT == <<46, 116, 109, 112>>
\* '_close' (basename of IPC_INPUT_CLOSE_SENTINEL)
CLOSE_NAME == <<95, 99, 108, 111, 115, 101>>

RECURSIVE Digits(_)
\* decimal rendering of a natural number, as in `${Date.now()}`
Digits(n) == IF n < 10 THEN <<48 + n>> ELSE Digits(n \div 10) \o <<48 + (n % 10)>>

\* Math.random().toString(36).slice(2, 8): base-36 characters; the model
\* draws one character 'a', 'b', ... per name
RandSuffixes == { <<97 + k>> : k \in 0..(NRand - 1) }

\* writeIpcFile: `${Date.now()}-${Math.random().toString(36).slice(2, 8)}.json`
IpcFileName(ts, rnd) == Digits(ts) \o <<45>> \o rnd \o JSON_EXT

\* String.prototype.endsWith
EndsWith(s, suf) ==
    /\ Len(s) >= Len(suf)
    /\ SubSeq(s, Len(s) - Len(suf) + 1, Len(s)) = suf

\* a < b in the order of Array.prototype.sort() without comparator
\* (code-unit order; a proper prefix sorts first)
LexLess(a, b) ==
    \/ /\ Len(a) < Len(b)
       /\ SubSeq(b, 1, Len(a)) = a
    \/ \E k \in 1..Len(a) :
          /\ k <= Len(b)
          /\ SubSeq(a, 1, k - 1) = SubSeq(b, 1, k - 1)
          /\ a[k] < b[k]

RECURSIVE SortNames(_)
\* the names of a set, ascending
SortNames(S) ==
    IF S = {} THEN <<>>
    ELSE LET m == CHOOSE x \in S : \A y \in S \ {x} : LexLess(x, y)
         IN  <<m>> \o SortNames(S \ {m})

\* -------------------------------------------------------------- directory
\* a directory is a set of files [name, data]; names are unique
NamesOf(dir) == { f.name : f \in dir }
FileAt(dir, name) == CHOOSE f \in dir : f.name = name
Exists(dir, name) == name \in NamesOf(dir)
Unlink(dir, name) == { f \in dir : f.name # name }
PutFile(dir, name, data) == Unlink(dir, name) \cup { [name |-> name, data |-> data] }

\* data of a complete inbound follow-up {type: 'message', text}
InboundData(text) == [type |-> "message", text |-> text, complete |-> TRUE]
SentinelData == [type |-> "", text |-> 0, complete |-> TRUE]

\* ------------------------------------------------------------- sequences
IsPrefix(s, t) == Len(s) <= Len(t) /\ SubSeq(t, 1, Len(s)) = s
Last(s) == s[Len(s)]
\* slice(0, n) in place of slice(-n)
SliceLast_KeepFirst(s, n) == IF Len(s) <= n THEN s ELSE SubSeq(s, 1, n)

\* Array.prototype.slice(-n)
SliceLast(s, n) == IF Len(s) <= n THEN s ELSE SubSeq(s, Len(s) - n + 1, Len(s))

RECURSIVE Concat(_)
Concat(ss) == IF ss = <<>> THEN <<>> ELSE Head(ss) \o Concat(Tail(ss))


\* ------------------------------------------------------------------ turns
\* an element of Session.messages (OpenAI.ChatCompletionMessageParam);
\* texts and call ids are numbers, content is the sequence of text lines
UserTurn(lines) == [role |-> "user", content |-> lines, tool_calls |-> <<>>, tool_call_id |-> 0]
AssistantTurn(lines, calls) ==
    [role |-> "assistant", content |-> lines, tool_calls |-> calls, tool_call_id |-> 0]
ToolTurn(callId) == [role |-> "tool", content |-> <<callId>>, tool_calls |-> <<>>, tool_call_id |-> callId]

\* session identifiers; NoId is an absent sessionId
NoId == 0
SessionIds == 1..(MaxInvocations + 1)

\* Session (the fields the loop uses); NoSession before line 975
NoSession == [id |-> NoId, messages |-> <<>>]
\* content of SESSIONS_DIR/<id>.json, or no such file
NoFile == [exists |-> FALSE, messages |-> <<>>]
SessionFile(msgs) == [exists |-> TRUE, messages |-> msgs]

\* histories earlier invocations have saved: five plain exchanges, and three
\* queries of which two used tools
PriorPlain ==
    Concat([k \in 1..5 |-> <<UserTurn(<<900 + k>>), AssistantTurn(<<800 + k>>, <<>>)>>])
PriorTools ==
    << UserTurn(<<901>>), AssistantTurn(<<>>, <<701>>), ToolTurn(701), AssistantTurn(<<801>>, <<>>),
       UserTurn(<<902>>), AssistantTurn(<<>>, <<702, 703>>), ToolTurn(702), ToolTurn(703),
       AssistantTurn(<<802>>, <<>>),
       UserTurn(<<903>>), AssistantTurn(<<803>>, <<>>) >>
PriorHistories == {PriorPlain, PriorTools}

\* ------------------------------------------------------------ worker state
VARIABLES
    pc,            \* position of the worker process in main()/runQuery()
    input,         \* ContainerInput read from stdin
    session,       \* main: `session`
    prompt,        \* main: `prompt` (lines joined by '\n')
    iter,          \* runQuery: `i`
    lastText,      \* runQuery: `lastText` (<<>> is null)
    toolCalls,     \* runQuery: msg.tool_calls still to dispatch
    closed,        \* main: `closed` of the last runQuery result
    result,        \* main: `result` of the last runQuery result
    stdout,        \* output blocks of the current process
    exitCode,      \* exit code of the process, -1 while it has none
    inputDir,      \* /workspace/ipc/input
    sessionFiles,  \* SESSIONS_DIR
    hostSession,   \* the conversation's active session pointer on the host
    issuedIds,     \* identifiers crypto.randomUUID() has returned
    nInv,          \* worker processes started
    nModelCalls,   \* model calls made
    nCallIds,      \* tool call ids the model has issued
    admitted,      \* follow-up texts in the order the host wrote them
    delivered,     \* follow-up texts in the order the worker took them
    atClose,       \* `admitted` when the worker last observed the sentinel
    accum,         \* turns loaded plus turns pushed by the current process
    loaded,        \* turns loaded at line 975 by the current process
    prevAccum,     \* `accum` of the previous process when it exited
    prevId,        \* session id of the previous process
    sentinelLive,  \* the sentinel in inputDir was written after the process started
    closeObserved, \* shouldClose() has returned true in the current process
    nCloses        \* sentinels the host has written

workerVars == <<pc, input, session, prompt, iter, lastText, toolCalls, closed, result,
                stdout, exitCode, inputDir, sessionFiles, hostSession, issuedIds,
                nInv, nModelCalls, nCallIds, admitted, delivered, atClose, accum, loaded,
                prevAccum, prevId, sentinelLive, closeObserved, nCloses>>

\* ---------------------------------------------- one mailbox directory
VARIABLES
    ipcDir,        \* the files of the directory
    now,           \* Date.now()
    wpc,           \* writer: position in writeIpcFile
    wname,         \* writer: `filename`
    wtext,         \* writer: the message being written (its number)
    nWrites,       \* writer: writeIpcFile calls begun
    nKills,        \* writer processes killed
    rlist,         \* reader: names of the listing still to process
    readLog        \* reader: file contents read, in the order read

ipcVars == <<ipcDir, now, wpc, wname, wtext, nWrites, nKills, rlist, readLog>>

\* ------------------------------------------------------- queue controller
VARIABLES
    qWorkers,      \* live Worker Invocations [conv, unit]
    qCurrent,      \* per conversation: the Work Unit its worker runs, 0 if none
    qQueue,        \* per conversation: Work Units waiting for a worker
    qInbox,        \* per conversation: inbound Mailbox Messages for its worker
    qWaiting,      \* conversations waiting for a free slot, first in first out
    qRetry,        \* per conversation: retry counter
    qTimer,        \* pending retries [conv, unit, delay]
    qDelays,       \* per conversation: retry delays scheduled since the last success
    qGaveUp,       \* failure notifications sent [conv, unit, error], in order
    qUnits,        \* Work Units admitted
    qCap,          \* the configured concurrency cap (MAX_CONCURRENT_CONTAINERS)
    qLastErr,      \* per conversation: error of its last worker exit, 0 for success
    qDone,         \* Worker Invocations that exited with success
    qFails,        \* worker exits with failure
    qBudget,       \* Work Units and failing exits this behaviour may have
    qSeen          \* conversations that have been admitted a Work Unit: 1..qSeen

queueVars == <<qWorkers, qCurrent, qQueue, qInbox, qWaiting, qRetry, qTimer,
               qDelays, qGaveUp, qUnits, qCap, qLastErr, qDone, qFails, qBudget,
               qSeen>>

\* ------------------------------------------ one drain of the inbound directory
VARIABLES
    dDir,          \* /workspace/ipc/input
    dAll,          \* every file the host has written to it
    dpc,           \* drainIpcInput: "idle" outside, "loop" inside the for loop
    dFiles,        \* drainIpcInput: `files` not yet visited
    dListed,       \* drainIpcInput: `files` as listed at line 207
    dMessages,     \* drainIpcInput: `messages`
    dReads,        \* names passed to readFileSync, in order
    dReturned      \* value returned by the last call that returned

drainVars == <<dDir, dAll, dpc, dFiles, dListed, dMessages, dReads, dReturned>>

\* ----------------------------------------------- backend, tools, mailboxes
VARIABLES
    client,        \* main: the OpenAI client options {apiKey, baseURL}
    modelName,     \* main: `modelName`
    backend,       \* main: `backend`
    stdinSecrets,  \* the secret bundle the host streamed to the current process
    callNames,     \* toolCall.function.name of every tool call id issued
    messagesDir,   \* /workspace/ipc/messages: file contents in the order written
    voiceDir       \* /workspace/ipc/voice: file contents in the order written

backendVars == <<client, modelName, backend, stdinSecrets>>
toolVars == <<backendVars, callNames, messagesDir, voiceDir>>

\* ------------------------------------------------------ workflow resolver
VARIABLES
    registry,      \* workflows/registry.json: entries [name, desc], names unique
    cacheFile,     \* workflows/.embeddings-cache.json
    sPhase,        \* "new" until the registry file has been written
    sQuery,        \* query of the last search_tools call
    sRegistry,     \* the registry the last call read
    sCache,        \* the cache the last call ranked by
    sEmbedded,     \* entry embeddings the last call computed
    sResult,       \* the entries the last call returned
    searched,      \* a search_tools call has been made
    nEdits         \* changes made to the registry file

searchVars == <<registry, cacheFile, sPhase, sQuery, sRegistry, sCache, sEmbedded, sResult,
                searched, nEdits>>

\* ---------------------------------------------------------- reasoning loop
VARIABLES
    lastChoice,    \* runQuery: tool calls and finish_reason of the last response to the prompt
    queryCalls,    \* model calls issued for the prompt
    lastReject,    \* the last model call threw: [has400, turns, retry]
    callArgs,      \* toolCall.function.arguments of every tool call id issued
    tasksDir       \* /workspace/ipc/tasks: file contents in the order written

loopVars == <<lastChoice, queryCalls, lastReject, callArgs, tasksDir>>

\* ------------------------------------------------------------ task listing
VARIABLES
    tSnapshot,     \* /workspace/ipc/current_tasks.json: tasks [id, groupFolder]
    tInput,        \* ContainerInput of the invocation: isMain, groupFolder
    tPhase,        \* "new", "ready" once snapshot and input are in place, "listed"
    tResult        \* the string list_tasks returned, as its lines

taskVars == <<tSnapshot, tInput, tPhase, tResult>>

\* -------------------------------------------- host: voice notes, WA version
VARIABLES
    vpc,           \* transcribeVoiceMessage: "idle" outside, else the step it is about to take
    vTrace,        \* the steps the current call has attempted: [step, ok]
    vAudio,        \* audioBuffer.length of the current call
    vReply,        \* what the voice service answered to POST /transcribe
    vReturned,     \* what the calls so far returned, oldest first
    wPhase,        \* "new" until the store directory is in its starting state
    wFile,         \* store/wa-version.json
    wBefore,       \* the file when the last fetchAndPersistVersion was called
    wFetched,      \* what the last fetchAndPersistVersion returned
    wGot,          \* what getWhatsAppVersion returned since, and the file it read
    nFetches       \* calls of fetchAndPersistVersion so far

hostVars == <<vpc, vTrace, vAudio, vReply, vReturned, wPhase, wFile, wBefore, wFetched, wGot,
              nFetches>>

\* the variables of the specifications below the queue controller
extVars == <<drainVars, toolVars, searchVars, taskVars, loopVars, hostVars>>

vars == <<workerVars, ipcVars, queueVars, extVars>>

Alive == pc \notin {"none", "exited"}

\* ------------------------------------------------------------ IPC helpers
\* shouldClose(): existsSync(sentinel), then unlinkSync
ShouldClose(dir) == Exists(dir, CLOSE_NAME)
AfterShouldClose(dir) == Unlink(dir, CLOSE_NAME)

\* drainIpcInput(): readdirSync().filter(f => f.endsWith('.json')).sort()
DrainListing(dir) == SortNames({ n \in NamesOf(dir) : EndsWith(n, JSON_EXT) })

RECURSIVE DrainTexts(_, _)
\* drainIpcInput(): the texts pushed while walking the listing; a file whose
\* content does not parse, or is no {type:'message', text}, contributes none
DrainTexts(dir, names) ==
    IF names = <<>> THEN <<>>
    ELSE LET d == FileAt(dir, Head(names)).data
         IN  (IF d.complete /\ d.type = "message" /\ d.text # 0 THEN <<d.text>> ELSE <<>>)
             \o DrainTexts(dir, Tail(names))

DrainIpcInput(dir) == DrainTexts(dir, DrainListing(dir))
\* every listed file is unlinked, parsed or not
AfterDrain(dir) == { f \in dir : ~EndsWith(f.name, JSON_EXT) }

\* ------------------------------------------------------- session helpers
\* loadSession(id): the parsed file, or null
LoadSession(files, id) == IF files[id].exists THEN [id |-> id, messages |-> files[id].messages]
                          ELSE NoSession
\* saveSession(session): full overwrite of SESSIONS_DIR/<id>.json
SaveSession(files, s) == [files EXCEPT ![s.id] = SessionFile(s.messages)]
\* newSession(): crypto.randomUUID() returns an identifier not issued before
FreshIds == { id \in SessionIds : id \notin issuedIds }
NewSession(id) == [id |-> id, messages |-> <<>>]

\* ContainerOutput
OutSuccess(res, id) == [status |-> "success", result |-> res, newSessionId |-> id, error |-> FALSE]
OutError(id) == [status |-> "error", result |-> <<>>, newSessionId |-> id, error |-> TRUE]


\* ------------------------------------------------------ ContainerInput
\* chatJid and groupFolder of the conversation
ChatJid == 7001
GroupFolder == 7002

\* input.secrets: absent entries are 0; API keys are 91xx, a base URL 93xx,
\* model names 92xx (9201 contains a '/', as 'liquid/lfm-2.5' does)
NoSecrets == [GEMINI_API_KEY |-> 0, OPENROUTER_API_KEY |-> 0, OPENROUTER_BASE_URL |-> 0,
              MODEL_NAME |-> 0]
SecretBundles ==
    { NoSecrets,
      [NoSecrets EXCEPT !.OPENROUTER_API_KEY = OLLAMA],
      [NoSecrets EXCEPT !.OPENROUTER_API_KEY = 9101, !.OPENROUTER_BASE_URL = 9301],
      [NoSecrets EXCEPT !.OPENROUTER_API_KEY = NO_KEY, !.GEMINI_API_KEY = 9102,
                        !.MODEL_NAME = 9201],
      [NoSecrets EXCEPT !.GEMINI_API_KEY = 9102, !.MODEL_NAME = 9202],
      [NoSecrets EXCEPT !.GEMINI_API_KEY = 9102, !.OPENROUTER_API_KEY = 9101] }
\* the bundle of the behaviours that do not vary it
DefaultSecrets == [NoSecrets EXCEPT !.OPENROUTER_API_KEY = 9101]
\* the values a bundle carries
SecretValues(b) == { b.GEMINI_API_KEY, b.OPENROUTER_API_KEY, b.OPENROUTER_BASE_URL,
                     b.MODEL_NAME } \ {0}
\* rawModel.includes('/') || rawModel.includes(':')
LooksLikeOpenRouter(m) == m = 9201
\* a ?? b
OrElse(a, b) == IF a # 0 THEN a ELSE b

NoClient == [apiKey |-> 0, baseURL |-> 0]

\* a selection that tests the Gemini key before the OpenRouter key
SelectBackend_GeminiFirst(b) ==
    IF b.OPENROUTER_API_KEY = OLLAMA
    THEN [apiKey |-> OLLAMA, baseURL |-> OrElse(b.OPENROUTER_BASE_URL, OLLAMA_BASE_URL),
          modelName |-> OrElse(b.MODEL_NAME, OLLAMA_DEFAULT_MODEL), backend |-> "ollama"]
    ELSE IF b.GEMINI_API_KEY # 0
    THEN [apiKey |-> b.GEMINI_API_KEY, baseURL |-> GEMINI_BASE_URL,
          modelName |-> IF LooksLikeOpenRouter(b.MODEL_NAME) THEN GEMINI_DEFAULT_MODEL
                        ELSE OrElse(b.MODEL_NAME, GEMINI_DEFAULT_MODEL),
          backend |-> "gemini"]
    ELSE IF b.OPENROUTER_API_KEY # 0 /\ b.OPENROUTER_API_KEY # NO_KEY
    THEN [apiKey |-> b.OPENROUTER_API_KEY,
          baseURL |-> OrElse(b.OPENROUTER_BASE_URL, OPENROUTER_BASE_URL),
          modelName |-> OrElse(b.MODEL_NAME, OPENROUTER_DEFAULT_MODEL),
          backend |-> "openrouter"]
    ELSE [apiKey |-> NO_KEY, baseURL |-> OPENROUTER_BASE_URL,
          modelName |-> OrElse(b.MODEL_NAME, OPENROUTER_DEFAULT_MODEL),
          backend |-> "openrouter"]

\* main 927-960: apiKey, baseURL, modelName, backend from the bundle
SelectBackend(b) ==
    IF b.OPENROUTER_API_KEY = OLLAMA
    THEN [apiKey |-> OLLAMA, baseURL |-> OrElse(b.OPENROUTER_BASE_URL, OLLAMA_BASE_URL),
          modelName |-> OrElse(b.MODEL_NAME, OLLAMA_DEFAULT_MODEL), backend |-> "ollama"]
    ELSE IF b.OPENROUTER_API_KEY # 0 /\ b.OPENROUTER_API_KEY # NO_KEY
    THEN [apiKey |-> b.OPENROUTER_API_KEY,
          baseURL |-> OrElse(b.OPENROUTER_BASE_URL, OPENROUTER_BASE_URL),
          modelName |-> OrElse(b.MODEL_NAME, OPENROUTER_DEFAULT_MODEL),
          backend |-> "openrouter"]
    ELSE IF b.GEMINI_API_KEY # 0
    THEN [apiKey |-> b.GEMINI_API_KEY, baseURL |-> GEMINI_BASE_URL,
          modelName |-> IF LooksLikeOpenRouter(b.MODEL_NAME) THEN GEMINI_DEFAULT_MODEL
                        ELSE OrElse(b.MODEL_NAME, GEMINI_DEFAULT_MODEL),
          backend |-> "gemini"]
    ELSE [apiKey |-> NO_KEY, baseURL |-> OPENROUTER_BASE_URL,
          modelName |-> OrElse(b.MODEL_NAME, OPENROUTER_DEFAULT_MODEL),
          backend |-> "openrouter"]

\* ------------------------------------------------------------------ tools
\* the tools that write to a mailbox, and any other tool
IpcTools == {"send_message", "send_voice", "ask_boss"}
CallName(id) == IF id \in DOMAIN callNames THEN callNames[id] ELSE "Bash"

\* executeTool 668-702: the object handed to writeIpcFile; the text argument
\* of a call is named by the call id
ToolFile(name, id, in) ==
    [type |-> IF name = "send_voice" THEN "voice_message" ELSE "message",
     chatJid |-> in.chatJid,
     lead |-> IF name = "ask_boss" THEN "Need your input: " ELSE "",
     text |-> id,
     groupFolder |-> in.groupFolder]

\* executeTool returning the text it was given
ToolResult_EchoText(name, id) == <<id>>

\* executeTool: the string returned to the model
ToolResult(name, id) ==
    IF name = "send_message" THEN <<RESULT_MESSAGE_SENT>>
    ELSE IF name = "send_voice" THEN <<RESULT_VOICE_QUEUED>>
    ELSE IF name = "ask_boss" THEN <<RESULT_QUESTION_SENT>>
    ELSE <<id>>


\* --------------------------------------------------------- loop bookkeeping
\* no response yet to the prompt
NoChoice == [calls |-> -1, finish |-> ""]
\* the last model call did not throw
NoReject == [has400 |-> FALSE, turns |-> -1, retry |-> FALSE]
\* runQuery 856-860: the last model call threw a 400 with more than 10 turns,
\* the history was trimmed and the loop went on to call again
RetryDue == lastReject.has400 /\ lastReject.turns > TRIM_KEEP
\* arguments that parse to an object, of a tool that does not throw
PlainArgs == [form |-> "object", throws |-> FALSE]

\* ---------------------------------------------------------------- dispatch
\* executeTool 704-716, 785-796: the tools that write to the tasks mailbox
TaskTools == {"schedule_task", "pause_task", "resume_task", "cancel_task"}
\* a name that has no case in the switch of executeTool
UnknownTool == "no_such_tool"
KnownTools == {"Bash"} \cup IpcTools \cup TaskTools
ToolNames == KnownTools \cup {UnknownTool}
\* the tool name as it appears inside a result string
ToolCode(name) ==
    CASE name = "Bash" -> 701
      [] name = "send_message" -> 702
      [] name = "send_voice" -> 703
      [] name = "ask_boss" -> 704
      [] name = "schedule_task" -> 705
      [] name = "pause_task" -> 706
      [] name = "resume_task" -> 707
      [] name = "cancel_task" -> 708
      [] OTHER -> 709

\* toolCall.function.arguments: the JSON text of an object with the tool's
\* fields, text that is not JSON, or the JSON text null; throws says that the
\* tool's own work fails (the command exits non-zero, the file cannot be
\* written)
ArgForms == {"object", "text", "null"}
ArgValues == {a \in [form : ArgForms, throws : BOOLEAN] : a.form = "null" => ~a.throws}
CallArgs(id) == IF id \in DOMAIN callArgs THEN callArgs[id] ELSE PlainArgs
\* runQuery 882-887: JSON.parse, and {command: text} when it throws
ParseArgs(raw) == IF raw.form = "text" THEN [raw EXCEPT !.form = "command"] ELSE raw
\* args.text, args.question, args.prompt: named by the call id, 0 when the
\* field is undefined
ArgText(args, id) == IF args.form = "object" THEN id ELSE 0
\* args.task_id
TaskIdOf(args, id) == IF args.form = "object" THEN 800 + id ELSE 0
\* writeIpcFile 188: the name of the k-th file of a directory
FileName(k) == 1000 + k

NoIpcFile == [type |-> "none"]
Outcome(res, dir, file) == [result |-> res, dir |-> dir, file |-> file, thrown |-> FALSE]
Thrown == [result |-> <<>>, dir |-> "none", file |-> NoIpcFile, thrown |-> TRUE]

\* executeTool 572-800: the switch; reading a field of null throws, and so
\* does writeIpcFile when the file cannot be written; Bash catches the
\* failure of its command itself (584-589)
ToolBody(name, id, raw, args, in, fname) ==
    IF name = "Bash"
    THEN IF args.form = "null" THEN Thrown
         ELSE IF raw.throws THEN Outcome(<<RESULT_EXIT_ERROR, id>>, "none", NoIpcFile)
         ELSE Outcome(ToolResult(name, id), "none", NoIpcFile)
    ELSE IF name \in IpcTools
    THEN IF args.form = "null" \/ raw.throws THEN Thrown
         ELSE Outcome(ToolResult(name, id), "messages",
                      [ToolFile(name, id, in) EXCEPT !.text = ArgText(args, id)])
    ELSE IF name = "schedule_task"
    THEN IF args.form = "null" \/ raw.throws THEN Thrown
         ELSE Outcome(<<RESULT_TASK_SCHEDULED, fname>>, "tasks",
                      [type |-> name, prompt |-> ArgText(args, id),
                       targetJid |-> in.chatJid, createdBy |-> in.groupFolder])
    ELSE IF name \in TaskTools
    THEN IF args.form = "null" \/ raw.throws THEN Thrown
         ELSE Outcome(<<ToolCode(name), RESULT_REQUESTED_FOR_TASK, TaskIdOf(args, id)>>,
                      "tasks",
                      [type |-> name, taskId |-> TaskIdOf(args, id),
                       groupFolder |-> in.groupFolder, isMain |-> in.isMain])
    ELSE Outcome(<<RESULT_UNKNOWN_TOOL, ToolCode(name)>>, "none", NoIpcFile)

\* executeTool without its catch
ExecuteTool_NoCatch(name, id, raw, in, fname) ==
    ToolBody(name, id, raw, ParseArgs(raw), in, fname)

\* runQuery 882-888, executeTool 571-805: parse the arguments, run the switch,
\* and turn whatever it throws into an error string
ExecuteTool(name, id, raw, in, fname) ==
    LET out == ToolBody(name, id, raw, ParseArgs(raw), in, fname)
    IN  IF out.thrown
        THEN Outcome(<<RESULT_ERROR_EXECUTING, ToolCode(name)>>, "none", NoIpcFile)
        ELSE out

\* the dispatch of one call of the response
Dispatch(id) ==
    ExecuteTool(CallName(id), id, CallArgs(id), input, FileName(Len(tasksDir) + 1))

\* runQuery 889-893: the tool turn pushed for a call
ToolTurnOf(id) == [ToolTurn(id) EXCEPT !.content = Dispatch(id).result]

InitLoop ==
    /\ lastChoice = NoChoice
    /\ queryCalls = 0
    /\ lastReject = NoReject
    /\ callArgs = <<>>
    /\ tasksDir = <<>>

\* ------------------------------------------------------------------- Init
InitWorker ==
    /\ pc = "none"
    /\ input = [parsable |-> TRUE, sessionId |-> NoId, prompt |-> 0, chatJid |-> ChatJid,
                groupFolder |-> GroupFolder, isMain |-> FALSE, secrets |-> NoSecrets]
    /\ client = NoClient
    /\ modelName = 0
    /\ backend = ""
    /\ stdinSecrets = NoSecrets
    /\ callNames = <<>>
    /\ messagesDir = <<>>
    /\ voiceDir = <<>>
    /\ session = NoSession
    /\ prompt = <<>>
    /\ iter = 0
    /\ lastText = <<>>
    /\ toolCalls = <<>>
    /\ closed = FALSE
    /\ result = <<>>
    /\ stdout = <<>>
    /\ exitCode = -1
    /\ inputDir = {}
    \* no session yet; or session 1 reported by an earlier invocation that
    \* never saved it; or session 1 saved by earlier invocations
    /\ \/ /\ hostSession = NoId
          /\ sessionFiles = [id \in SessionIds |-> NoFile]
          /\ issuedIds = {}
       \/ /\ hostSession = 1
          /\ sessionFiles = [id \in SessionIds |-> NoFile]
          /\ issuedIds = {1}
       \/ /\ hostSession = 1
          /\ \E h \in PriorHistories :
                sessionFiles = [id \in SessionIds |-> IF id = 1 THEN SessionFile(h) ELSE NoFile]
          /\ issuedIds = {1}
    /\ nInv = 0
    /\ nModelCalls = 0
    /\ nCallIds = 0
    /\ admitted = <<>>
    /\ delivered = <<>>
    /\ atClose = <<>>
    /\ accum = <<>>
    /\ loaded = <<>>
    /\ prevAccum = <<>>
    /\ prevId = NoId
    /\ sentinelLive = FALSE
    /\ closeObserved = FALSE
    /\ nCloses = 0

\* ------------------------------------------------------------ host actions
\* the host starts a worker process and streams the ContainerInput to it;
\* sessionId is the conversation's session pointer, or absent
StartWorkerWith(sid, parsable, bundle) ==
    /\ sid \in {NoId, hostSession}
    /\ pc' = "readStdin"
    /\ input' = [parsable |-> parsable, sessionId |-> sid, prompt |-> 101 + nInv,
                 chatJid |-> ChatJid, groupFolder |-> GroupFolder, isMain |-> FALSE,
                 secrets |-> bundle]
    /\ stdinSecrets' = bundle
    /\ client' = NoClient
    /\ modelName' = 0
    /\ backend' = ""
    /\ session' = NoSession
    /\ prompt' = <<>>
    /\ iter' = 0
    /\ lastText' = <<>>
    /\ toolCalls' = <<>>
    /\ closed' = FALSE
    /\ result' = <<>>
    /\ stdout' = <<>>
    /\ exitCode' = -1
    /\ nInv' = nInv + 1
    /\ accum' = <<>>
    /\ loaded' = <<>>
    /\ prevAccum' = accum
    /\ prevId' = session.id
    /\ sentinelLive' = FALSE
    /\ closeObserved' = FALSE
    /\ lastChoice' = NoChoice
    /\ queryCalls' = 0
    /\ lastReject' = NoReject
    /\ UNCHANGED <<inputDir, sessionFiles, hostSession, issuedIds, nModelCalls,
                   nCallIds, admitted, delivered, atClose,
                   nCloses, callNames, messagesDir, voiceDir,
                   ipcVars, queueVars, drainVars, searchVars, taskVars, hostVars, callArgs, tasksDir>>

StartWorker(sid, parsable) == StartWorkerWith(sid, parsable, DefaultSecrets)

\* the first worker of the conversation
Spawn(sid, parsable) ==
    /\ pc = "none"
    /\ StartWorker(sid, parsable)

\* the first worker of the conversation, given a secret bundle
SpawnWith(sid, bundle) ==
    /\ pc = "none"
    /\ StartWorkerWith(sid, TRUE, bundle)

\* a later worker, started after the previous one has exited
Respawn(sid, parsable) ==
    /\ pc = "exited"
    /\ nInv < MaxInvocations
    /\ StartWorker(sid, parsable)

\* the name of the k-th inbound file of the conversation: timestamp-prefixed,
\* and the host's timestamps increase from one follow-up to the next
HostFileName(k) == IpcFileName(k, <<97>>)

\* the host delivers a follow-up to the running worker: one complete file
\* appears in the inbound directory
HostSendMessage ==
    /\ Alive
    /\ Len(admitted) < MaxFollowUps
    /\ inputDir' = PutFile(inputDir, HostFileName(Len(admitted) + 1),
                           InboundData(Len(admitted) + 1))
    /\ admitted' = Append(admitted, Len(admitted) + 1)
    /\ UNCHANGED <<pc, input, session, prompt, iter, lastText, toolCalls, closed, result,
                   stdout, exitCode, sessionFiles, hostSession, issuedIds, nInv,
                   nModelCalls, nCallIds, delivered, atClose, accum, loaded, prevAccum,
                   prevId, sentinelLive, closeObserved, nCloses,
                   ipcVars, queueVars, extVars>>

\* the host writes the close sentinel
HostWriteClose ==
    /\ Alive
    /\ nCloses < MaxCloses
    /\ nCloses' = nCloses + 1
    /\ inputDir' = PutFile(inputDir, CLOSE_NAME, SentinelData)
    /\ sentinelLive' = TRUE
    /\ UNCHANGED <<pc, input, session, prompt, iter, lastText, toolCalls, closed, result,
                   stdout, exitCode, sessionFiles, hostSession, issuedIds, nInv,
                   nModelCalls, nCallIds, admitted, delivered, atClose, accum, loaded,
                   prevAccum, prevId, closeObserved,
                   ipcVars, queueVars, extVars>>

\* ------------------------------------------------------------ main(), start
\* main 915-925: read and parse stdin; on failure an error block without
\* newSessionId, and process.exit(1)
MainParseStdin ==
    /\ pc = "readStdin"
    /\ IF input.parsable
       THEN /\ pc' = "selectBackend"
            /\ UNCHANGED <<stdout, exitCode>>
       ELSE /\ stdout' = Append(stdout, OutError(NoId))
            /\ exitCode' = 1
            /\ pc' = "exited"
    /\ UNCHANGED <<input, session, prompt, iter, lastText, toolCalls, closed, result,
                   inputDir, sessionFiles, hostSession, issuedIds, nInv, nModelCalls,
                   nCallIds, admitted, delivered, atClose, accum, loaded, prevAccum,
                   prevId, sentinelLive, closeObserved,
                   nCloses,
                   ipcVars, queueVars, extVars>>

\* MainSelectBackend without `delete input.secrets`
MainSelectBackend_KeepSecrets ==
    /\ pc = "selectBackend"
    /\ LET sel == SelectBackend(input.secrets)
       IN  /\ client' = [apiKey |-> sel.apiKey, baseURL |-> sel.baseURL]
           /\ modelName' = sel.modelName
           /\ backend' = sel.backend
    /\ pc' = "loadSession"
    /\ UNCHANGED <<input, session, prompt, iter, lastText, toolCalls, closed, result, stdout,
                   exitCode, inputDir, sessionFiles, hostSession, issuedIds, nInv,
                   nModelCalls, nCallIds, admitted, delivered, atClose, accum, loaded,
                   prevAccum, prevId, sentinelLive, closeObserved, nCloses,
                   stdinSecrets, callNames, messagesDir, voiceDir,
                   ipcVars, queueVars, drainVars, searchVars, taskVars, hostVars, loopVars>>

\* main 927-973: choose the backend from input.secrets, delete input.secrets,
\* build the client
MainSelectBackend ==
    /\ pc = "selectBackend"
    /\ LET sel == SelectBackend(input.secrets)
       IN  /\ client' = [apiKey |-> sel.apiKey, baseURL |-> sel.baseURL]
           /\ modelName' = sel.modelName
           /\ backend' = sel.backend
    /\ input' = [input EXCEPT !.secrets = NoSecrets]
    /\ pc' = "loadSession"
    /\ UNCHANGED <<session, prompt, iter, lastText, toolCalls, closed, result, stdout,
                   exitCode, inputDir, sessionFiles, hostSession, issuedIds, nInv,
                   nModelCalls, nCallIds, admitted, delivered, atClose, accum, loaded,
                   prevAccum, prevId, sentinelLive, closeObserved, nCloses,
                   stdinSecrets, callNames, messagesDir, voiceDir,
                   ipcVars, queueVars, drainVars, searchVars, taskVars, hostVars, loopVars>>

\* MainLoadSession, but a session that cannot be loaded is started empty under
\* the identifier that was given
MainLoadSession_KeepGivenId ==
    /\ pc = "loadSession"
    /\ LET found == IF input.sessionId # NoId THEN LoadSession(sessionFiles, input.sessionId)
                    ELSE NoSession
       IN  IF found # NoSession
           THEN /\ session' = found
                /\ UNCHANGED issuedIds
           ELSE IF input.sessionId # NoId
           THEN /\ session' = NewSession(input.sessionId)
                /\ UNCHANGED issuedIds
           ELSE \E id \in FreshIds :
                /\ \A other \in FreshIds : id <= other
                /\ session' = NewSession(id)
                /\ issuedIds' = issuedIds \cup {id}
    /\ accum' = session'.messages
    /\ loaded' = session'.messages
    /\ pc' = "unlinkClose"
    /\ UNCHANGED <<input, prompt, iter, lastText, toolCalls, closed, result, stdout,
                   exitCode, inputDir, sessionFiles, hostSession, nInv, nModelCalls,
                   nCallIds, admitted, delivered, atClose, prevAccum, prevId,
                   sentinelLive, closeObserved, nCloses,
                   ipcVars, queueVars, extVars>>

\* main 975: (input.sessionId ? loadSession(input.sessionId) : null) ?? newSession()
MainLoadSession ==
    /\ pc = "loadSession"
    /\ LET found == IF input.sessionId # NoId THEN LoadSession(sessionFiles, input.sessionId)
                    ELSE NoSession
       IN  IF found # NoSession
           THEN /\ session' = found
                /\ UNCHANGED issuedIds
           ELSE \E id \in FreshIds :
                /\ \A other \in FreshIds : id <= other
                /\ session' = NewSession(id)
                /\ issuedIds' = issuedIds \cup {id}
    /\ accum' = session'.messages
    /\ loaded' = session'.messages
    /\ pc' = "unlinkClose"
    /\ UNCHANGED <<input, prompt, iter, lastText, toolCalls, closed, result, stdout,
                   exitCode, inputDir, sessionFiles, hostSession, nInv, nModelCalls,
                   nCallIds, admitted, delivered, atClose, prevAccum, prevId,
                   sentinelLive, closeObserved,
                   nCloses,
                   ipcVars, queueVars, extVars>>

\* main 978-979 without the unlink
MainUnlinkClose_Keep ==
    /\ pc = "unlinkClose"
    /\ inputDir' = inputDir
    /\ sentinelLive' = FALSE
    /\ pc' = "drainPending"
    /\ UNCHANGED <<input, session, prompt, iter, lastText, toolCalls, closed, result,
                   stdout, exitCode, sessionFiles, hostSession, issuedIds, nInv,
                   nModelCalls, nCallIds, admitted, delivered, atClose, accum, loaded,
                   prevAccum, prevId, closeObserved,
                   nCloses,
                   ipcVars, queueVars, extVars>>

\* main 978-979: unlinkSync(IPC_INPUT_CLOSE_SENTINEL), errors ignored
MainUnlinkClose ==
    /\ pc = "unlinkClose"
    /\ inputDir' = Unlink(inputDir, CLOSE_NAME)
    /\ sentinelLive' = FALSE
    /\ pc' = "drainPending"
    /\ UNCHANGED <<input, session, prompt, iter, lastText, toolCalls, closed, result,
                   stdout, exitCode, sessionFiles, hostSession, issuedIds, nInv,
                   nModelCalls, nCallIds, admitted, delivered, atClose, accum, loaded,
                   prevAccum, prevId, closeObserved,
                   nCloses,
                   ipcVars, queueVars, extVars>>

\* main 981-988: prompt = input.prompt, then the pending inbound texts
MainDrainPending ==
    /\ pc = "drainPending"
    /\ prompt' = <<input.prompt>> \o DrainIpcInput(inputDir)
    /\ delivered' = delivered \o DrainIpcInput(inputDir)
    /\ inputDir' = AfterDrain(inputDir)
    /\ pc' = "runQuery"
    /\ UNCHANGED <<input, session, iter, lastText, toolCalls, closed, result, stdout,
                   exitCode, sessionFiles, hostSession, issuedIds, nInv, nModelCalls,
                   nCallIds, admitted, atClose, accum, loaded, prevAccum, prevId,
                   sentinelLive, closeObserved,
                   nCloses,
                   ipcVars, queueVars, extVars>>

\* --------------------------------------------------------------- runQuery
\* runQuery 817-820: push the user turn
RunQueryStart ==
    /\ pc = "runQuery"
    /\ session' = [session EXCEPT !.messages = Append(@, UserTurn(prompt))]
    /\ accum' = Append(accum, UserTurn(prompt))
    /\ lastText' = <<>>
    /\ iter' = 0
    /\ lastChoice' = NoChoice
    /\ queryCalls' = 0
    /\ lastReject' = NoReject
    /\ pc' = "iterTop"
    /\ UNCHANGED <<input, prompt, toolCalls, closed, result, stdout, exitCode, inputDir,
                   sessionFiles, hostSession, issuedIds, nInv, nModelCalls, nCallIds,
                   admitted, delivered, atClose, loaded, prevAccum, prevId, sentinelLive,
                   closeObserved,
                   nCloses,
                   ipcVars, queueVars, drainVars, toolVars, searchVars, taskVars, hostVars, callArgs, tasksDir>>

\* RunQueryIterTop, but the close path returns without saveSession
RunQueryIterTop_NoSave ==
    /\ pc = "iterTop"
    /\ IF iter >= MAX_TOOL_ITERATIONS
       THEN /\ pc' = "saveReturn"
            /\ UNCHANGED <<inputDir, closed, result, atClose, sentinelLive, closeObserved>>
       ELSE IF ShouldClose(inputDir)
       THEN /\ inputDir' = AfterShouldClose(inputDir)
            /\ closed' = TRUE
            /\ result' = lastText
            /\ atClose' = admitted
            /\ sentinelLive' = FALSE
            /\ closeObserved' = TRUE
            /\ pc' = "writeOutput"
       ELSE /\ pc' = "modelCall"
            /\ UNCHANGED <<inputDir, closed, result, atClose, sentinelLive, closeObserved>>
    /\ UNCHANGED <<input, session, prompt, iter, lastText, toolCalls, stdout, exitCode,
                   hostSession, issuedIds, nInv, nModelCalls, nCallIds, admitted,
                   delivered, accum, loaded, prevAccum, prevId, sessionFiles, nCloses,
                   ipcVars, queueVars, extVars>>

\* runQuery 822 with a loop test that lets one more iteration through
RunQueryIterTop_OneMore ==
    /\ pc = "iterTop"
    /\ IF iter > MAX_TOOL_ITERATIONS
       THEN /\ pc' = "saveReturn"
            /\ UNCHANGED <<inputDir, sessionFiles, closed, result, atClose, sentinelLive,
                           closeObserved>>
       ELSE IF ShouldClose(inputDir)
       THEN /\ inputDir' = AfterShouldClose(inputDir)
            /\ sessionFiles' = SaveSession(sessionFiles, session)
            /\ closed' = TRUE
            /\ result' = lastText
            /\ atClose' = admitted
            /\ sentinelLive' = FALSE
            /\ closeObserved' = TRUE
            /\ pc' = "writeOutput"
       ELSE /\ pc' = "modelCall"
            /\ UNCHANGED <<inputDir, sessionFiles, closed, result, atClose, sentinelLive,
                           closeObserved>>
    /\ UNCHANGED <<input, session, prompt, iter, lastText, toolCalls, stdout, exitCode,
                   hostSession, issuedIds, nInv, nModelCalls, nCallIds, admitted,
                   delivered, accum, loaded, prevAccum, prevId,
                   nCloses,
                   ipcVars, queueVars, extVars>>

\* runQuery 822-827: loop test, then the close sentinel check
RunQueryIterTop ==
    /\ pc = "iterTop"
    /\ IF iter >= MAX_TOOL_ITERATIONS
       THEN /\ pc' = "saveReturn"
            /\ UNCHANGED <<inputDir, sessionFiles, closed, result, atClose, sentinelLive,
                           closeObserved>>
       ELSE IF ShouldClose(inputDir)
       THEN /\ inputDir' = AfterShouldClose(inputDir)
            /\ sessionFiles' = SaveSession(sessionFiles, session)
            /\ closed' = TRUE
            /\ result' = lastText
            /\ atClose' = admitted
            /\ sentinelLive' = FALSE
            /\ closeObserved' = TRUE
            /\ pc' = "writeOutput"
       ELSE /\ pc' = "modelCall"
            /\ UNCHANGED <<inputDir, sessionFiles, closed, result, atClose, sentinelLive,
                           closeObserved>>
    /\ UNCHANGED <<input, session, prompt, iter, lastText, toolCalls, stdout, exitCode,
                   hostSession, issuedIds, nInv, nModelCalls, nCallIds, admitted,
                   delivered, accum, loaded, prevAccum, prevId,
                   nCloses,
                   ipcVars, queueVars, extVars>>

\* ModelRespondNamed, but only an answer without tool calls completes the query
ModelRespondNamed_IgnoreStop(hasText, names, finish) ==
    /\ pc = "modelCall"
    /\ nModelCalls < MaxModelCalls
    /\ LET nCalls == Len(names)
           text  == IF hasText THEN <<501 + nModelCalls>> ELSE <<>>
           calls == [k \in 1..nCalls |-> nCallIds + k]
           msg   == AssistantTurn(text, calls)
       IN  /\ session' = [session EXCEPT !.messages = Append(@, msg)]
           /\ accum' = Append(accum, msg)
           /\ lastText' = IF hasText THEN text ELSE lastText
           /\ IF nCalls = 0
              THEN /\ pc' = "saveReturn"
                   /\ toolCalls' = <<>>
              ELSE /\ pc' = "tools"
                   /\ toolCalls' = calls
           /\ nCallIds' = nCallIds + nCalls
    /\ nModelCalls' = nModelCalls + 1
    /\ callNames' = callNames \o names
    /\ callArgs' = callArgs \o [k \in 1..Len(names) |-> PlainArgs]
    /\ lastChoice' = [calls |-> Len(names), finish |-> finish]
    /\ queryCalls' = queryCalls + 1
    /\ lastReject' = NoReject
    /\ UNCHANGED <<input, prompt, iter, closed, result, stdout, exitCode, inputDir,
                   sessionFiles, hostSession, issuedIds, nInv, admitted, delivered,
                   atClose, loaded, prevAccum, prevId, sentinelLive, closeObserved,
                   nCloses, backendVars, messagesDir, voiceDir,
                   ipcVars, queueVars, drainVars, searchVars, taskVars, hostVars, tasksDir>>

\* runQuery 843-878: the model answers; msg is pushed; the query is complete
\* when it has no tool calls or finish_reason is 'stop'; names are the
\* function names of the tool calls of the answer
ModelAnswerArgs(hasText, names, args, finish) ==
    /\ pc = "modelCall"
    /\ LET nCalls == Len(names)
           text  == IF hasText THEN <<501 + nModelCalls>> ELSE <<>>
           calls == [k \in 1..nCalls |-> nCallIds + k]
           msg   == AssistantTurn(text, calls)
       IN  /\ session' = [session EXCEPT !.messages = Append(@, msg)]
           /\ accum' = Append(accum, msg)
           /\ lastText' = IF hasText THEN text ELSE lastText
           /\ IF nCalls = 0 \/ finish = "stop"
              THEN /\ pc' = "saveReturn"
                   /\ toolCalls' = <<>>
              ELSE /\ pc' = "tools"
                   /\ toolCalls' = calls
           /\ nCallIds' = nCallIds + nCalls
    /\ nModelCalls' = nModelCalls + 1
    /\ callNames' = callNames \o names
    /\ callArgs' = callArgs \o args
    /\ lastChoice' = [calls |-> Len(names), finish |-> finish]
    /\ queryCalls' = queryCalls + 1
    /\ lastReject' = NoReject
    /\ UNCHANGED <<input, prompt, iter, closed, result, stdout, exitCode, inputDir,
                   sessionFiles, hostSession, issuedIds, nInv, admitted, delivered,
                   atClose, loaded, prevAccum, prevId, sentinelLive, closeObserved,
                   nCloses, backendVars, messagesDir, voiceDir,
                   ipcVars, queueVars, drainVars, searchVars, taskVars, hostVars, tasksDir>>

\* an answer whose calls have arguments that parse to an object
ModelAnswer(hasText, names, finish) ==
    ModelAnswerArgs(hasText, names, [k \in 1..Len(names) |-> PlainArgs], finish)

\* the same, within the number of model calls of a behaviour
ModelRespondNamed(hasText, names, finish) ==
    /\ nModelCalls < MaxModelCalls
    /\ ModelAnswer(hasText, names, finish)

\* an answer whose tool calls, if any, are for tools that write no mailbox
ModelRespond(hasText, nCalls, finish) ==
    ModelRespondNamed(hasText, [k \in 1..nCalls |-> "Bash"], finish)

\* an answer that calls one of send_message, send_voice, ask_boss
ModelRespondTool(name) ==
    ModelRespondNamed(FALSE, <<name>>, "tool_calls")

\* runQuery 852-863: the call throws; a message containing '400' with more
\* than 10 turns trims the session to its last 10, saves, and continues
ModelThrow(has400) ==
    /\ pc = "modelCall"
    /\ nModelCalls' = nModelCalls + 1
    /\ queryCalls' = queryCalls + 1
    /\ lastReject' = [has400 |-> has400, turns |-> Len(session.messages),
                       retry |-> RetryDue]
    /\ IF has400 /\ Len(session.messages) > TRIM_KEEP
       THEN /\ session' = [session EXCEPT !.messages = SliceLast(@, TRIM_KEEP)]
            /\ sessionFiles' = SaveSession(sessionFiles, session')
            /\ iter' = iter + 1
            /\ pc' = "iterTop"
       ELSE /\ pc' = "fatal"
            /\ UNCHANGED <<session, sessionFiles, iter>>
    /\ UNCHANGED <<input, prompt, lastText, toolCalls, closed, result, stdout, exitCode,
                   inputDir, hostSession, issuedIds, nInv, nCallIds, admitted,
                   delivered, atClose, accum, loaded, prevAccum, prevId, sentinelLive,
                   closeObserved,
                   nCloses,
                   ipcVars, queueVars, drainVars, toolVars, searchVars, taskVars, hostVars,
                   lastChoice, callArgs, tasksDir>>

\* the same, within the number of model calls of a behaviour
ModelReject(has400) ==
    /\ nModelCalls < MaxModelCalls
    /\ ModelThrow(has400)

\* runQuery 881-894: dispatch the next tool call and push its result turn;
\* executeTool 668-702: send_message, send_voice and ask_boss each write one
\* file to IPC_MESSAGES_DIR and return at once
RunQueryExecTool ==
    /\ pc = "tools"
    /\ toolCalls # <<>>
    /\ LET id  == Head(toolCalls)
           out == Dispatch(id)
       IN  IF out.thrown
           THEN /\ pc' = "fatal"
                /\ UNCHANGED <<session, accum, messagesDir, tasksDir, toolCalls, iter>>
           ELSE /\ session' = [session EXCEPT !.messages = Append(@, ToolTurnOf(id))]
                /\ accum' = Append(accum, ToolTurnOf(id))
                /\ messagesDir' = IF out.dir = "messages"
                                  THEN Append(messagesDir, out.file)
                                  ELSE messagesDir
                /\ tasksDir' = IF out.dir = "tasks"
                               THEN Append(tasksDir, out.file)
                               ELSE tasksDir
                /\ toolCalls' = Tail(toolCalls)
                /\ IF Tail(toolCalls) = <<>>
                   THEN /\ iter' = iter + 1
                        /\ pc' = "iterTop"
                   ELSE UNCHANGED <<iter, pc>>
    /\ UNCHANGED <<input, prompt, lastText, closed, result, stdout, exitCode, inputDir,
                   sessionFiles, hostSession, issuedIds, nInv, nModelCalls, nCallIds,
                   admitted, delivered, atClose, loaded, prevAccum, prevId, sentinelLive,
                   closeObserved,
                   nCloses, backendVars, callNames, voiceDir,
                   ipcVars, queueVars, drainVars, searchVars, taskVars, hostVars, lastChoice,
                   queryCalls, lastReject, callArgs>>

\* runQuery 897-898 without the save
RunQuerySaveReturn_NoSave ==
    /\ pc = "saveReturn"
    /\ closed' = FALSE
    /\ result' = lastText
    /\ pc' = "writeOutput"
    /\ UNCHANGED <<input, session, prompt, iter, lastText, toolCalls, stdout, exitCode,
                   inputDir, sessionFiles, hostSession, issuedIds, nInv, nModelCalls,
                   nCallIds, admitted, delivered, atClose, accum, loaded, prevAccum,
                   prevId, sentinelLive, closeObserved,
                   nCloses,
                   ipcVars, queueVars, extVars>>

\* runQuery 897-898: saveSession(session); return { result: lastText, closed: false }
RunQuerySaveReturn ==
    /\ pc = "saveReturn"
    /\ sessionFiles' = SaveSession(sessionFiles, session)
    /\ closed' = FALSE
    /\ result' = lastText
    /\ pc' = "writeOutput"
    /\ UNCHANGED <<input, session, prompt, iter, lastText, toolCalls, stdout, exitCode,
                   inputDir, hostSession, issuedIds, nInv, nModelCalls, nCallIds,
                   admitted, delivered, atClose, accum, loaded, prevAccum, prevId,
                   sentinelLive, closeObserved,
                   nCloses,
                   ipcVars, queueVars, extVars>>


\* ------------------------------------------------------- main(), query loop
\* main 995: writeOutput({ status: 'success', result, newSessionId: session.id });
\* the host persists the identifier of every block it reads
MainWriteOutput ==
    /\ pc = "writeOutput"
    /\ stdout' = Append(stdout, OutSuccess(result, session.id))
    /\ hostSession' = session.id
    /\ pc' = "checkClose"
    /\ UNCHANGED <<input, session, prompt, iter, lastText, toolCalls, closed, result,
                   exitCode, inputDir, sessionFiles, issuedIds, nInv, nModelCalls,
                   nCallIds, admitted, delivered, atClose, accum, loaded, prevAccum,
                   prevId, sentinelLive, closeObserved,
                   nCloses,
                   ipcVars, queueVars, extVars>>

\* main 997-1008 leaving the loop when there is no sentinel
MainCheckClose_NoWait ==
    /\ pc = "checkClose"
    /\ IF closed
       THEN /\ pc' = "exited"
            /\ exitCode' = 0
            /\ UNCHANGED <<inputDir, atClose, sentinelLive, closeObserved>>
       ELSE IF ShouldClose(inputDir)
       THEN /\ inputDir' = AfterShouldClose(inputDir)
            /\ atClose' = admitted
            /\ sentinelLive' = FALSE
            /\ closeObserved' = TRUE
            /\ pc' = "exited"
            /\ exitCode' = 0
       ELSE /\ pc' = "exited"
            /\ exitCode' = 0
            /\ UNCHANGED <<inputDir, atClose, sentinelLive, closeObserved>>
    /\ UNCHANGED <<input, session, prompt, iter, lastText, toolCalls, closed, result,
                   stdout, sessionFiles, hostSession, issuedIds, nInv, nModelCalls,
                   nCallIds, admitted, delivered, accum, loaded, prevAccum, prevId,
                   nCloses,
                   ipcVars, queueVars, extVars>>

\* main 997-1000: if (closed || shouldClose()) break; main returns, exit code 0
MainCheckClose ==
    /\ pc = "checkClose"
    /\ IF closed
       THEN /\ pc' = "exited"
            /\ exitCode' = 0
            /\ UNCHANGED <<inputDir, atClose, sentinelLive, closeObserved>>
       ELSE IF ShouldClose(inputDir)
       THEN /\ inputDir' = AfterShouldClose(inputDir)
            /\ atClose' = admitted
            /\ sentinelLive' = FALSE
            /\ closeObserved' = TRUE
            /\ pc' = "exited"
            /\ exitCode' = 0
       ELSE /\ pc' = "wait"
            /\ UNCHANGED <<inputDir, atClose, sentinelLive, closeObserved, exitCode>>
    /\ UNCHANGED <<input, session, prompt, iter, lastText, toolCalls, closed, result,
                   stdout, sessionFiles, hostSession, issuedIds, nInv, nModelCalls,
                   nCallIds, admitted, delivered, accum, loaded, prevAccum, prevId,
                   nCloses,
                   ipcVars, queueVars, extVars>>

\* waitForIpcMessage 221-231 and main 1003-1010: one poll that finds the
\* sentinel (exit) or inbound messages (next prompt); a poll that finds
\* neither changes nothing and is taken again IPC_POLL_MS later
MainWaitPoll ==
    /\ pc = "wait"
    /\ IF ShouldClose(inputDir)
       THEN /\ inputDir' = AfterShouldClose(inputDir)
            /\ atClose' = admitted
            /\ sentinelLive' = FALSE
            /\ closeObserved' = TRUE
            /\ pc' = "exited"
            /\ exitCode' = 0
            /\ UNCHANGED <<prompt, delivered>>
       ELSE /\ DrainListing(inputDir) # <<>>
            /\ inputDir' = AfterDrain(inputDir)
            /\ delivered' = delivered \o DrainIpcInput(inputDir)
            /\ IF DrainIpcInput(inputDir) # <<>>
               THEN /\ prompt' = DrainIpcInput(inputDir)
                    /\ pc' = "runQuery"
               ELSE UNCHANGED <<prompt, pc>>
            /\ UNCHANGED <<atClose, sentinelLive, closeObserved, exitCode>>
    /\ UNCHANGED <<input, session, iter, lastText, toolCalls, closed, result, stdout,
                   sessionFiles, hostSession, issuedIds, nInv, nModelCalls, nCallIds,
                   admitted, accum, loaded, prevAccum, prevId,
                   nCloses,
                   ipcVars, queueVars, extVars>>

\* MainFatal without process.exit(1): main returns and the exit code is 0
MainFatal_NoExitCode ==
    /\ pc = "fatal"
    /\ stdout' = Append(stdout, OutError(session.id))
    /\ hostSession' = session.id
    /\ exitCode' = 0
    /\ pc' = "exited"
    /\ UNCHANGED <<input, session, prompt, iter, lastText, toolCalls, closed, result,
                   inputDir, sessionFiles, issuedIds, nInv, nModelCalls, nCallIds,
                   admitted, delivered, atClose, accum, loaded, prevAccum, prevId,
                   sentinelLive, closeObserved, nCloses,
                   ipcVars, queueVars, extVars>>

\* main 1012-1017: error block with newSessionId, process.exit(1)
MainFatal ==
    /\ pc = "fatal"
    /\ stdout' = Append(stdout, OutError(session.id))
    /\ hostSession' = session.id
    /\ exitCode' = 1
    /\ pc' = "exited"
    /\ UNCHANGED <<input, session, prompt, iter, lastText, toolCalls, closed, result,
                   inputDir, sessionFiles, issuedIds, nInv, nModelCalls, nCallIds,
                   admitted, delivered, atClose, accum, loaded, prevAccum, prevId,
                   sentinelLive, closeObserved,
                   nCloses,
                   ipcVars, queueVars, extVars>>

\* ===================================================== one mailbox directory
\* writeIpcFile 190: tmp = `${fp}.tmp`
\* a temporary name that keeps the '.json' ending: 'tmp-' + filename
TmpName_Prefixed(fp) == <<116, 109, 112, 45>> \o fp

TmpName(fp) == fp \o TMP_EXT

\* content of a file: the message it carries and how many of the MsgChunks
\* pieces of its JSON text are on disk; it parses only when all are
FileData(text, written) == [text |-> text, written |-> written]

InitIpc ==
    /\ ipcDir = {}
    /\ now = 1
    /\ wpc = "idle"
    /\ wname = <<>>
    /\ wtext = 0
    /\ nWrites = 0
    /\ nKills = 0
    /\ rlist = <<>>
    /\ readLog = <<>>

\* writeIpcFile 187-191: choose the name, create (or truncate) the temporary file
WriteIpcBegin(rnd) ==
    /\ wpc = "idle"
    /\ nWrites < MaxWrites
    /\ wname' = IpcFileName(now, rnd)
    /\ wtext' = nWrites + 1
    /\ nWrites' = nWrites + 1
    /\ ipcDir' = PutFile(ipcDir, TmpName(wname'), FileData(wtext', 0))
    /\ wpc' = "write"
    /\ UNCHANGED <<now, nKills, rlist, readLog, workerVars, queueVars, extVars>>

\* writeIpcFile 191: writeFileSync puts the next piece of the text on disk
WriteIpcChunk ==
    /\ wpc = "write"
    /\ LET d == FileAt(ipcDir, TmpName(wname)).data
       IN  /\ ipcDir' = PutFile(ipcDir, TmpName(wname), FileData(d.text, d.written + 1))
           /\ wpc' = IF d.written + 1 = MsgChunks THEN "rename" ELSE "write"
    /\ UNCHANGED <<now, wname, wtext, nWrites, nKills, rlist, readLog, workerVars,
                   queueVars, extVars>>

\* writeIpcFile 192: renameSync(tmp, fp), atomic, replacing fp if it exists
WriteIpcRename ==
    /\ wpc = "rename"
    /\ ipcDir' = PutFile(Unlink(ipcDir, TmpName(wname)), wname,
                         FileAt(ipcDir, TmpName(wname)).data)
    /\ wpc' = "idle"
    /\ UNCHANGED <<now, wname, wtext, nWrites, nKills, rlist, readLog, workerVars,
                   queueVars, extVars>>

\* the writing process is killed inside writeIpcFile; a later process starts
\* with whatever the killed one left in the directory
WriterKilled ==
    /\ wpc # "idle"
    /\ nKills < MaxKills
    /\ nKills' = nKills + 1
    /\ wpc' = "idle"
    /\ UNCHANGED <<ipcDir, now, wname, wtext, nWrites, rlist, readLog, workerVars,
                   queueVars, extVars>>

\* a millisecond passes
Tick ==
    /\ now < MaxClock
    /\ now' = now + 1
    /\ UNCHANGED <<ipcDir, wpc, wname, wtext, nWrites, nKills, rlist, readLog,
                   workerVars, queueVars, extVars>>

\* drainIpcInput 207: the reader lists the directory, filters and sorts
ReaderList ==
    /\ rlist = <<>>
    /\ DrainListing(ipcDir) # <<>>
    /\ rlist' = DrainListing(ipcDir)
    /\ UNCHANGED <<ipcDir, now, wpc, wname, wtext, nWrites, nKills, readLog, workerVars,
                   queueVars, extVars>>

\* drainIpcInput 209-216: read the next listed file and unlink it
ReaderProcess ==
    /\ rlist # <<>>
    /\ IF Exists(ipcDir, Head(rlist))
       THEN /\ readLog' = Append(readLog, FileAt(ipcDir, Head(rlist)).data)
            /\ ipcDir' = Unlink(ipcDir, Head(rlist))
       ELSE UNCHANGED <<readLog, ipcDir>>
    /\ rlist' = Tail(rlist)
    /\ UNCHANGED <<now, wpc, wname, wtext, nWrites, nKills, workerVars, queueVars, extVars>>

NextIpc ==
    \/ \E rnd \in RandSuffixes : WriteIpcBegin(rnd)
    \/ WriteIpcChunk
    \/ WriteIpcRename
    \/ WriterKilled
    \/ Tick
    \/ ReaderList
    \/ ReaderProcess

\* ======================================================== queue controller
\* Modelled from the specification (4.1 Queue Controller, 5 Concurrency) and
\* the architecture notes; src/group-queue.ts is not among the sources.
Convs == 1..NConvs

RECURSIVE Pow2(_)
Pow2(n) == IF n = 0 THEN 1 ELSE 2 * Pow2(n - 1)

Range(f) == { f[k] : k \in DOMAIN f }

\* the live Worker Invocations of a conversation
QLive(c) == { w \in qWorkers : w.conv = c }

\* behaviours are explored up to MaxUnits Work Units with MaxFailures failing
\* exits (retry chains reach the ceiling), and up to one Work Unit more with
\* MaxFewFailures failing exits (the pending list holds several conversations)
QBudgets == { [units |-> MaxUnits, fails |-> MaxFailures],
              [units |-> MaxUnits + 1, fails |-> MaxFewFailures] }

NoBudget == [units |-> 0, fails |-> 0]

InitQueue ==
    /\ qCap = 0
    /\ qBudget = NoBudget
    /\ qSeen = 0
    /\ qWorkers = {}
    /\ qCurrent = [c \in Convs |-> 0]
    /\ qQueue = [c \in Convs |-> <<>>]
    /\ qInbox = [c \in Convs |-> <<>>]
    /\ qWaiting = <<>>
    /\ qRetry = [c \in Convs |-> 0]
    /\ qTimer = {}
    /\ qDelays = [c \in Convs |-> <<>>]
    /\ qLastErr = [c \in Convs |-> 0]
    /\ qGaveUp = <<>>
    /\ qDone = {}
    /\ qFails = 0
    /\ qUnits = 0

\* the controller is constructed with the configured cap
QConfigure(cap, budget) ==
    /\ qCap = 0
    /\ qCap' = cap
    /\ qBudget' = budget
    /\ UNCHANGED <<qWorkers, qCurrent, qQueue, qInbox, qWaiting, qRetry, qTimer, qDelays,
                   qGaveUp, qUnits, qLastErr, qDone, qFails, qSeen,
                   workerVars, ipcVars, extVars>>

\* QAdmitUnit without the test for a live worker
QAdmitUnit_NoLiveTest(c, u) ==
    IF qQueue[c] = <<>> /\ Cardinality(qWorkers) < qCap
    THEN /\ qWorkers' = qWorkers \cup { [conv |-> c, unit |-> u] }
         /\ qCurrent' = [qCurrent EXCEPT ![c] = u]
         /\ UNCHANGED <<qQueue, qInbox, qWaiting>>
    ELSE /\ qQueue' = [qQueue EXCEPT ![c] = Append(@, u)]
         /\ qWaiting' = IF c \in Range(qWaiting) THEN qWaiting ELSE Append(qWaiting, c)
         /\ UNCHANGED <<qWorkers, qCurrent, qInbox>>

\* QAdmitUnit without the test for a free slot
QAdmitUnit_NoCap(c, u) ==
    IF QLive(c) # {}
    THEN /\ qInbox' = [qInbox EXCEPT ![c] = Append(@, u)]
         /\ UNCHANGED <<qWorkers, qCurrent, qQueue, qWaiting>>
    ELSE /\ qWorkers' = qWorkers \cup { [conv |-> c, unit |-> u] }
         /\ qCurrent' = [qCurrent EXCEPT ![c] = u]
         /\ UNCHANGED <<qQueue, qInbox, qWaiting>>

\* Admit: a conversation with a live worker gets the unit as an inbound
\* Mailbox Message; otherwise a worker is started if a slot is free, and the
\* unit waits in the pending list if none is
QAdmitUnit(c, u) ==
    IF QLive(c) # {}
    THEN /\ qInbox' = [qInbox EXCEPT ![c] = Append(@, u)]
         /\ UNCHANGED <<qWorkers, qCurrent, qQueue, qWaiting>>
    ELSE IF qQueue[c] = <<>> /\ Cardinality(qWorkers) < qCap
    THEN /\ qWorkers' = qWorkers \cup { [conv |-> c, unit |-> u] }
         /\ qCurrent' = [qCurrent EXCEPT ![c] = u]
         /\ UNCHANGED <<qQueue, qInbox, qWaiting>>
    ELSE /\ qQueue' = [qQueue EXCEPT ![c] = Append(@, u)]
         /\ qWaiting' = IF c \in Range(qWaiting) THEN qWaiting ELSE Append(qWaiting, c)
         /\ UNCHANGED <<qWorkers, qCurrent, qInbox>>

\* submit(conversationKey, text, isScheduled): a new Work Unit is admitted;
\* conversations are numbered in the order of their first Work Unit
QAdmit(c) ==
    /\ qUnits < qBudget.units
    /\ c <= qSeen + 1
    /\ qSeen' = IF c = qSeen + 1 THEN c ELSE qSeen
    /\ qUnits' = qUnits + 1
    /\ QAdmitUnit(c, qUnits + 1)
    /\ UNCHANGED <<qCap, qBudget, qRetry, qTimer, qDelays, qLastErr, qGaveUp, qDone, qFails,
                   workerVars, ipcVars, extVars>>

\* a retry timer fires: the failed Work Unit is admitted again
QRetryFires(t) ==
    /\ t \in qTimer
    /\ qTimer' = qTimer \ {t}
    /\ QAdmitUnit(t.conv, t.unit)
    /\ UNCHANGED <<qCap, qBudget, qSeen, qRetry, qDelays, qLastErr, qGaveUp, qDone, qFails, qUnits,
                   workerVars, ipcVars, extVars>>

\* QShouldRetry without the ceiling: every failure schedules a retry
QShouldRetry_NoCeiling(c, err) == err # 0

\* a failed exit (err is the error, 0 for exit code 0) is retried while the
\* conversation's retry counter is below the ceiling
QShouldRetry(c, err) == err # 0 /\ qRetry[c] < MAX_RETRIES

\* at the ceiling a failed exit is given up
QShouldGiveUp(c, err) == err # 0 /\ qRetry[c] >= MAX_RETRIES

\* QRetryDelay growing by the same step each time: 5s, 10s, 15s, ...
QRetryDelay_Linear(n) == BASE_RETRY_SECONDS * (n + 1)

\* the delay of the retry after n earlier retries: 5s, 10s, 20s, 40s, 80s
QRetryDelay(n) == BASE_RETRY_SECONDS * Pow2(n)

\* QNextRetry that keeps the counter across a successful exit
QNextRetry_NoReset(c, err) ==
    IF QShouldRetry(c, err) THEN qRetry[c] + 1 ELSE IF err = 0 THEN qRetry[c] ELSE 0

\* the retry counter after an exit: one more for a retry, zero after a
\* success and after giving up
QNextRetry(c, err) == IF QShouldRetry(c, err) THEN qRetry[c] + 1 ELSE 0

\* the error a worker of conversation c fails with: errors are told apart by
\* the attempt that raised them (1 for the first attempt, 2 for the first
\* retry, ...)
QErrorOf(c) == qRetry[c] + 1

\* a worker exits: success resets the retry counter; failure schedules a
\* retry after 5s, 10s, ... while the counter is below the ceiling and gives
\* up (failure notification with the error) at the ceiling; the freed slot
\* goes to the conversation at the head of the pending list
QWorkerExit(w, ok) ==
    /\ w \in qWorkers
    /\ ok \/ qFails < qBudget.fails
    /\ qFails' = IF ok THEN qFails ELSE qFails + 1
    /\ LET c        == w.conv
           err      == IF ok THEN 0 ELSE QErrorOf(c)
           delay    == QRetryDelay(qRetry[c])
           waiting1 == IF qQueue[c] # <<>> /\ c \notin Range(qWaiting)
                       THEN Append(qWaiting, c) ELSE qWaiting
           workers1 == qWorkers \ {w}
           current1 == [qCurrent EXCEPT ![c] = 0]
       IN  /\ qRetry' = [qRetry EXCEPT ![c] = QNextRetry(c, err)]
           /\ qLastErr' = [qLastErr EXCEPT ![c] = err]
           /\ qTimer' = IF QShouldRetry(c, err)
                        THEN qTimer \cup { [conv |-> c, unit |-> w.unit, delay |-> delay] }
                        ELSE qTimer
           /\ qDelays' = [qDelays EXCEPT ![c] = IF QShouldRetry(c, err) THEN Append(@, delay)
                                                ELSE <<>>]
           /\ qGaveUp' = IF QShouldGiveUp(c, err)
                         THEN Append(qGaveUp, [conv |-> c, unit |-> w.unit, error |-> err])
                         ELSE qGaveUp
           /\ qDone' = IF err = 0 THEN qDone \cup {w} ELSE qDone
           /\ qInbox' = [qInbox EXCEPT ![c] = <<>>]
           /\ IF waiting1 # <<>>
              THEN LET n == Head(waiting1)
                   IN  /\ qWorkers' = workers1 \cup { [conv |-> n, unit |-> Head(qQueue[n])] }
                       /\ qCurrent' = [current1 EXCEPT ![n] = Head(qQueue[n])]
                       /\ qQueue' = [qQueue EXCEPT ![n] = Tail(@)]
                       /\ qWaiting' = Tail(waiting1)
              ELSE /\ qWorkers' = workers1
                   /\ qCurrent' = current1
                   /\ qWaiting' = waiting1
                   /\ UNCHANGED qQueue
    /\ UNCHANGED <<qCap, qBudget, qSeen, qUnits, workerVars, ipcVars, extVars>>

NextQueue ==
    \/ \E cap \in 1..MaxConcurrent, budget \in QBudgets : QConfigure(cap, budget)
    \/ \E c \in Convs : QAdmit(c)
    \/ \E t \in qTimer : QRetryFires(t)
    \/ \E w \in qWorkers, ok \in BOOLEAN : QWorkerExit(w, ok)

\* ================================================== drainIpcInput, by step
\* what the host may leave in the inbound directory: a follow-up, a file
\* whose text is no JSON, a JSON file of another type
MalformedData == [type |-> "", text |-> 0, complete |-> FALSE]
OtherData(text) == [type |-> "other", text |-> text, complete |-> TRUE]
InboundKinds == {"message", "malformed", "other"}
DataOfKind(kind, text) ==
    IF kind = "message" THEN InboundData(text)
    ELSE IF kind = "malformed" THEN MalformedData
    ELSE OtherData(text)

InitDrain ==
    /\ dDir = {}
    /\ dAll = {}
    /\ dpc = "idle"
    /\ dFiles = <<>>
    /\ dListed = <<>>
    /\ dMessages = <<>>
    /\ dReads = <<>>
    /\ dReturned = <<>>

\* the host puts one complete file into the inbound directory
DrainHostWrite(kind) ==
    /\ Cardinality(dAll) < MaxInbound
    /\ LET k == Cardinality(dAll) + 1
           f == [name |-> HostFileName(k), data |-> DataOfKind(kind, k)]
       IN  /\ dDir' = dDir \cup {f}
           /\ dAll' = dAll \cup {f}
    /\ UNCHANGED <<dpc, dFiles, dListed, dMessages, dReads, dReturned,
                   workerVars, ipcVars, queueVars, toolVars,
                   searchVars, taskVars, hostVars, loopVars>>

\* drainIpcInput 205-208: readdirSync, filter, sort; messages = []
DrainBegin ==
    /\ dpc = "idle"
    /\ dFiles' = DrainListing(dDir)
    /\ dListed' = DrainListing(dDir)
    /\ dMessages' = <<>>
    /\ dpc' = "loop"
    /\ UNCHANGED <<dDir, dAll, dReads, dReturned, workerVars, ipcVars, queueVars, toolVars,
                   searchVars, taskVars, hostVars, loopVars>>

\* DrainStep, but a file that does not parse is left in place and ends the
\* call with no messages (the outer catch)
DrainStep_ThrowOnMalformed ==
    /\ dpc = "loop"
    /\ dFiles # <<>>
    /\ LET d == FileAt(dDir, Head(dFiles)).data
       IN  IF d.complete
           THEN /\ dDir' = Unlink(dDir, Head(dFiles))
                /\ dMessages' = dMessages \o DrainTexts(dDir, <<Head(dFiles)>>)
                /\ dFiles' = Tail(dFiles)
           ELSE /\ dMessages' = <<>>
                /\ dFiles' = <<>>
                /\ UNCHANGED dDir
    /\ dReads' = Append(dReads, Head(dFiles))
    /\ UNCHANGED <<dAll, dpc, dListed, dReturned, workerVars, ipcVars, queueVars, toolVars,
                   searchVars, taskVars, hostVars, loopVars>>

\* drainIpcInput 209-216: read and parse the next file; parsed: unlink, and
\* push the text of a {type:'message', text}; not parsed: unlink (the catch)
DrainStep ==
    /\ dpc = "loop"
    /\ dFiles # <<>>
    /\ LET d == FileAt(dDir, Head(dFiles)).data
       IN  IF d.complete
           THEN /\ dDir' = Unlink(dDir, Head(dFiles))
                /\ dMessages' = dMessages \o DrainTexts(dDir, <<Head(dFiles)>>)
           ELSE /\ dDir' = Unlink(dDir, Head(dFiles))
                /\ UNCHANGED dMessages
    /\ dFiles' = Tail(dFiles)
    /\ dReads' = Append(dReads, Head(dFiles))
    /\ UNCHANGED <<dAll, dpc, dListed, dReturned, workerVars, ipcVars, queueVars, toolVars,
                   searchVars, taskVars, hostVars, loopVars>>

\* drainIpcInput 218: return messages
DrainReturn ==
    /\ dpc = "loop"
    /\ dFiles = <<>>
    /\ dReturned' = dMessages
    /\ dpc' = "idle"
    /\ UNCHANGED <<dDir, dAll, dFiles, dListed, dMessages, dReads,
                   workerVars, ipcVars, queueVars, toolVars,
                   searchVars, taskVars, hostVars, loopVars>>

NextDrain ==
    \/ \E kind \in InboundKinds : DrainHostWrite(kind)
    \/ DrainBegin
    \/ DrainStep
    \/ DrainReturn

\* ====================================================== workflow resolver
\* EMBED_MODEL
EMBED_MODEL == "Xenova/all-MiniLM-L6-v2"

\* embed(): the model is a fixed function from a text to a vector; the
\* vectors of the description texts and of the query texts
DescVectors == << <<1, 0>>, <<1, 1>>, <<1, 4>>, <<1, 3>>, <<0, 1>>, <<-1, 1>> >>
QueryVectors == << <<1, 0>>, <<0, 1>>, <<1, 1>> >>
\* embed([`${e.name}: ${e.description}`])
EmbedEntry(e) == DescVectors[e.desc]
\* embed([query])
EmbedQuery(q) == QueryVectors[q]

\* cosine 500-508: dot / (sqrt(na) * sqrt(nb)), kept as the pair (dot, na * nb)
Dot(a, b) == a[1] * b[1] + a[2] * b[2]
Cosine(a, b) == [dot |-> Dot(a, b), nn |-> Dot(a, a) * Dot(b, b)]
\* s.score > 0.3
AboveThreshold(c) ==
    /\ c.nn > 0
    /\ c.dot > 0
    /\ THRESHOLD_DEN * THRESHOLD_DEN * c.dot * c.dot > THRESHOLD_NUM * THRESHOLD_NUM * c.nn
\* c < d as numbers
CosLess(c, d) ==
    IF c.dot >= 0 /\ d.dot >= 0 THEN c.dot * c.dot * d.nn < d.dot * d.dot * c.nn
    ELSE IF c.dot < 0 /\ d.dot < 0 THEN c.dot * c.dot * d.nn > d.dot * d.dot * c.nn
    ELSE c.dot < d.dot

NoCache == [exists |-> FALSE, readable |-> FALSE, model |-> "", entries |-> <<>>]
NoEntry == [name |-> 0, desc |-> 0]

\* registry.find(e => e.name === name), NoEntry for undefined
FindEntry(reg, name) ==
    IF \E i \in 1..Len(reg) : reg[i].name = name
    THEN reg[CHOOSE i \in 1..Len(reg) :
                 reg[i].name = name /\ \A j \in 1..(i - 1) : reg[j].name # name]
    ELSE NoEntry

\* loadEmbeddingCache 532-537: embed every entry of the registry
BuildCache(reg) ==
    [exists |-> TRUE, readable |-> TRUE, model |-> EMBED_MODEL,
     entries |-> [i \in 1..Len(reg) |-> [name |-> reg[i].name, embedding |-> EmbedEntry(reg[i])]]]

\* loadEmbeddingCache 523-541: the cache file if its model matches and it has
\* every name of the registry, else a cache built now
\* the test of 528 without the comparison of the model
CacheUsable_AnyModel(reg, file) ==
    /\ file.exists
    /\ file.readable
    /\ \A i \in 1..Len(reg) : \E k \in 1..Len(file.entries) : file.entries[k].name = reg[i].name

\* loadEmbeddingCache 525-530: the file is read and parsed without an
\* exception, its model is the current one and it covers every name
CacheUsable(reg, file) ==
    /\ file.exists
    /\ file.readable
    /\ file.model = EMBED_MODEL
    /\ \A i \in 1..Len(reg) : \E k \in 1..Len(file.entries) : file.entries[k].name = reg[i].name

LoadEmbeddingCache(reg, file) ==
    IF CacheUsable(reg, file) THEN file ELSE BuildCache(reg)

\* loadEmbeddingCache 533: the texts handed to embed
EmbeddedBy(reg, file) == IF CacheUsable(reg, file) THEN 0 ELSE Len(reg)

\* the place an ascending sort gives element i of seq
SortedPlace_Ascending(seq, i) ==
    Cardinality({ j \in 1..Len(seq) : CosLess(seq[j].score, seq[i].score) })
    + Cardinality({ j \in 1..i : ~CosLess(seq[j].score, seq[i].score)
                                /\ ~CosLess(seq[i].score, seq[j].score) })

\* sort((a, b) => b.score - a.score), a stable sort: element i of seq goes
\* behind the elements that score higher and behind the elements before it
\* that score the same
SortedPlace(seq, i) ==
    Cardinality({ j \in 1..Len(seq) : CosLess(seq[i].score, seq[j].score) })
    + Cardinality({ j \in 1..i : ~CosLess(seq[j].score, seq[i].score)
                                /\ ~CosLess(seq[i].score, seq[j].score) })

SortByScore(seq) ==
    [r \in 1..Len(seq) |-> seq[CHOOSE i \in 1..Len(seq) : SortedPlace(seq, i) = r]]

\* semanticSearch 549-554 without the test of s.entry
KeptEntries_AnyEntry(q, reg, cache) ==
    LET Kept(x) == AboveThreshold(x.score)
    IN  SelectSeq([k \in 1..Len(cache.entries) |->
                     [entry |-> FindEntry(reg, cache.entries[k].name),
                      score |-> Cosine(EmbedQuery(q), cache.entries[k].embedding)]],
                  Kept)

\* semanticSearch 549-554: map, filter
KeptEntries(q, reg, cache) ==
    LET Kept(x) == x.entry # NoEntry /\ AboveThreshold(x.score)
    IN  SelectSeq([k \in 1..Len(cache.entries) |->
                     [entry |-> FindEntry(reg, cache.entries[k].name),
                      score |-> Cosine(EmbedQuery(q), cache.entries[k].embedding)]],
                  Kept)

\* semanticSearch 557: scored.slice(0, topK).map(s => s.entry)
TopEntries(scored) ==
    [k \in 1..(IF Len(scored) < TOP_K THEN Len(scored) ELSE TOP_K) |-> scored[k].entry]

InitSearch ==
    /\ registry = <<>>
    /\ cacheFile = NoCache
    /\ sPhase = "new"
    /\ sQuery = 0
    /\ sRegistry = <<>>
    /\ sCache = NoCache
    /\ sEmbedded = 0
    /\ sResult = <<>>
    /\ searched = FALSE
    /\ nEdits = 0

\* registries of TOP_K + 1 entries named 1, 2, ..., of any descriptions
Registries == [1..(TOP_K + 1) -> 1..NDescs]
RegistryOf(descs) == [i \in 1..Len(descs) |-> [name |-> i, desc |-> descs[i]]]

\* the cache files a registry may find beside it: none, one built by an older
\* embedding model, one built from this registry, one built before the
\* description of entry `changed` was edited, or one built before a last
\* entry was removed, or one whose text was cut short and does not parse
CacheKinds == {"none", "oldModel", "fresh", "edited", "extra", "garbled"}
CacheBeside(reg, kind, changed, oldDesc) ==
    IF kind = "none" THEN NoCache
    ELSE IF kind = "oldModel" THEN [BuildCache(reg) EXCEPT !.model = "older"]
    ELSE IF kind = "fresh" THEN BuildCache(reg)
    ELSE IF kind = "garbled" THEN [BuildCache(reg) EXCEPT !.readable = FALSE]
    ELSE IF kind = "edited"
    THEN BuildCache([reg EXCEPT ![changed] = [name |-> changed, desc |-> oldDesc]])
    ELSE BuildCache(reg \o <<[name |-> Len(reg) + 1, desc |-> oldDesc]>>)

\* the user's registry.json is in place, with a cache file of one of these
\* kinds left by earlier searches
SetupRegistry(kinds) ==
    /\ sPhase = "new"
    /\ \E descs \in Registries, kind \in kinds, changed \in 1..(TOP_K + 1), oldDesc \in 1..NDescs :
          /\ registry' = RegistryOf(descs)
          /\ cacheFile' = CacheBeside(RegistryOf(descs), kind, changed, oldDesc)
    /\ sPhase' = "ready"
    /\ UNCHANGED <<sQuery, sRegistry, sCache, sEmbedded, sResult, searched, nEdits,
                   workerVars, ipcVars, queueVars, drainVars, toolVars, taskVars, hostVars, loopVars>>

\* executeTool 743-756 (search_tools) with semanticSearch 543-558 and
\* loadEmbeddingCache 523-541
SearchTools(q) ==
    /\ sPhase = "ready"
    /\ searched' = TRUE
    /\ \E cache \in {LoadEmbeddingCache(registry, cacheFile)} :
          /\ cacheFile' = cache
          /\ sCache' = cache
          /\ sEmbedded' = EmbeddedBy(registry, cacheFile)
          /\ \E kept \in {KeptEntries(q, registry, cache)} :
                \E scored \in {SortByScore(kept)} : sResult' = TopEntries(scored)
    /\ sQuery' = q
    /\ sRegistry' = registry
    /\ UNCHANGED <<registry, sPhase, nEdits, workerVars, ipcVars, queueVars, drainVars,
                   toolVars, taskVars, hostVars, loopVars>>

\* the description of a registry entry is edited
EditDescription(i, d) ==
    /\ sPhase = "ready"
    /\ nEdits < MaxEdits
    /\ i \in 1..Len(registry)
    /\ registry[i].desc # d
    /\ registry' = [registry EXCEPT ![i].desc = d]
    /\ nEdits' = nEdits + 1
    /\ UNCHANGED <<cacheFile, sPhase, sQuery, sRegistry, sCache, sEmbedded, sResult, searched,
                   workerVars, ipcVars, queueVars, drainVars, toolVars, taskVars, hostVars, loopVars>>

\* an entry is removed from the registry
RemoveEntry(i) ==
    /\ sPhase = "ready"
    /\ nEdits < MaxEdits
    /\ i \in 1..Len(registry)
    /\ registry' = SubSeq(registry, 1, i - 1) \o SubSeq(registry, i + 1, Len(registry))
    /\ nEdits' = nEdits + 1
    /\ UNCHANGED <<cacheFile, sPhase, sQuery, sRegistry, sCache, sEmbedded, sResult, searched,
                   workerVars, ipcVars, queueVars, drainVars, toolVars, taskVars, hostVars, loopVars>>

\* an entry is added at the end of the registry, under the lowest name that
\* is free
AddEntry(d) ==
    /\ sPhase = "ready"
    /\ Len(registry) < TOP_K + 1
    /\ LET used == {registry[i].name : i \in 1..Len(registry)}
           name == CHOOSE n \in (1..(TOP_K + 1)) \ used :
                       \A m \in (1..(TOP_K + 1)) \ used : n <= m
       IN  registry' = Append(registry, [name |-> name, desc |-> d])
    /\ UNCHANGED <<nEdits, cacheFile, sPhase, sQuery, sRegistry, sCache, sEmbedded, sResult, searched,
                   workerVars, ipcVars, queueVars, drainVars, toolVars, taskVars, hostVars, loopVars>>

\* searches over a registry that finds any of the cache files beside it
NextSearch ==
    \/ SetupRegistry(CacheKinds)
    \/ \E q \in 1..NQueries : SearchTools(q)

\* searches between which the registry is edited; no cache file at the start
NextCache ==
    \/ SetupRegistry({"none"})
    \/ \E q \in 1..NQueries : SearchTools(q)
    \/ \E i \in 1..(TOP_K + 1), d \in 1..NDescs : EditDescription(i, d)
    \/ \E i \in 1..(TOP_K + 1) : RemoveEntry(i)

\* ============================================================ task listing
\* the snapshot file is missing
NoSnapshot == [exists |-> FALSE, tasks |-> <<>>]
\* 'No tasks found.'
NoTasksFound == <<0>>

\* the line of a task: `[${t.id}] ${t.prompt.slice(0, 60)} | ...`; the prompt,
\* schedule and status of a task are named by its id
TaskLine(t) == t.id

\* list_tasks without the filter on groupFolder
ListTasks_All(snapshot, in) ==
    IF ~snapshot.exists THEN NoTasksFound
    ELSE IF snapshot.tasks = <<>> THEN NoTasksFound
    ELSE [k \in 1..Len(snapshot.tasks) |-> TaskLine(snapshot.tasks[k])]

\* executeTool 718-731 (list_tasks)
ListTasks(snapshot, in) ==
    IF ~snapshot.exists THEN NoTasksFound
    ELSE LET Own(t) == t.groupFolder = in.groupFolder
             tasks == IF in.isMain THEN snapshot.tasks ELSE SelectSeq(snapshot.tasks, Own)
         IN  IF tasks = <<>> THEN NoTasksFound
             ELSE [k \in 1..Len(tasks) |-> TaskLine(tasks[k])]

\* the snapshots: no file, or a list of tasks of distinct ids, each of a group
TaskLists ==
    UNION { { t \in [1..n -> [id : 1..MaxTasks, groupFolder : 1..NGroups]] :
                \A i, j \in 1..n : i # j => t[i].id # t[j].id } : n \in 0..MaxTasks }
Snapshots == {NoSnapshot} \cup { [exists |-> TRUE, tasks |-> t] : t \in TaskLists }

InitTasks ==
    /\ tSnapshot = NoSnapshot
    /\ tInput = [isMain |-> FALSE, groupFolder |-> 0]
    /\ tPhase = "new"
    /\ tResult = <<>>

\* the host writes the snapshot and starts an invocation for a group
TasksSetup ==
    /\ tPhase = "new"
    /\ \E snapshot \in Snapshots, isMain \in BOOLEAN, g \in 1..NGroups :
          /\ tSnapshot' = snapshot
          /\ tInput' = [isMain |-> isMain, groupFolder |-> g]
    /\ tPhase' = "ready"
    /\ UNCHANGED <<tResult, workerVars, ipcVars, queueVars, drainVars, toolVars, searchVars,
                   loopVars, hostVars>>

\* the model calls list_tasks
ListTasksCall ==
    /\ tPhase = "ready"
    /\ tResult' = ListTasks(tSnapshot, tInput)
    /\ tPhase' = "listed"
    /\ UNCHANGED <<tSnapshot, tInput, workerVars, ipcVars, queueVars, drainVars, toolVars,
                   searchVars, loopVars, hostVars>>

NextTasks ==
    \/ TasksSetup
    \/ ListTasksCall


\* ================================================== host: voice transcription
\* the characters of a transcript: a blank and a letter
SPACE == 32
LETTER == 97
Texts == UNION { [1..n -> {SPACE, LETTER}] : n \in 0..MaxChars }

\* String.prototype.trim
RECURSIVE TrimStart(_)
TrimStart(s) == IF s # <<>> /\ Head(s) = SPACE THEN TrimStart(Tail(s)) ELSE s
RECURSIVE TrimEnd(_)
TrimEnd(s) ==
    IF s # <<>> /\ s[Len(s)] = SPACE THEN TrimEnd(SubSeq(s, 1, Len(s) - 1)) ELSE s
Trim(s) == TrimEnd(TrimStart(s))

\* what a call of transcribeVoiceMessage gives its caller
NullTranscript == [null |-> TRUE, text |-> <<>>, threw |-> FALSE]
VoiceThrown == [null |-> FALSE, text |-> <<>>, threw |-> TRUE]
Transcript(t) == [null |-> FALSE, text |-> t, threw |-> FALSE]

\* a body whose exception escapes to the caller
OrNull_Rethrow(r) == r

\* the catch blocks 33-36, 42-45, 82-85: log and return null
OrNull(r) == IF r.threw THEN NullTranscript ELSE r

\* GET /health: it answers 2xx, answers another status, or fetch rejects
HealthOutcomes == {"ok", "notOk", "throws"}
\* downloadMediaMessage: it rejects, or resolves to nothing or to a buffer
DownloadOutcomes ==
    { [kind |-> "throws", bytes |-> 0], [kind |-> "undefined", bytes |-> 0] }
    \cup { [kind |-> "buffer", bytes |-> n] : n \in 0..MaxBytes }
\* POST /transcribe: fetch rejects, the status is not 2xx, the body is not
\* JSON, the JSON is null, has no text, has a text that is no string, or has
\* a text
NoReply == [kind |-> "none", text |-> <<>>]
Replies ==
    { [kind |-> k, text |-> <<>>] :
          k \in {"throws", "notOk", "badJson", "null", "noText", "nonString"} }
    \cup { [kind |-> "text", text |-> t] : t \in Texts }

\* 28-36 without the catch: `if (!ping.ok) throw`
HealthBody(o) == IF o = "ok" THEN Transcript(<<>>) ELSE VoiceThrown
\* 40-50: the catch, then `!audioBuffer || audioBuffer.length === 0`
DownloadResult(o) ==
    LET r == OrNull(IF o.kind = "throws" THEN VoiceThrown ELSE Transcript(<<>>))
    IN  IF r.null \/ r.threw THEN r
        ELSE IF o.kind = "undefined" \/ o.bytes = 0 THEN NullTranscript
        ELSE r
\* 53-81 without the catch: `json.text?.trim()` throws on a null json and on
\* a text that has no trim
PostBody(reply) ==
    IF reply.kind \in {"throws", "badJson", "null", "nonString"} THEN VoiceThrown
    ELSE IF reply.kind = "notOk" THEN NullTranscript
    ELSE LET text == Trim(reply.text)
         IN  IF text = <<>> THEN NullTranscript ELSE Transcript(text)

InitVoice ==
    /\ vpc = "idle"
    /\ vTrace = <<>>
    /\ vAudio = 0
    /\ vReply = NoReply
    /\ vReturned = <<>>

versionVars == <<wPhase, wFile, wBefore, wFetched, wGot, nFetches>>
voiceVars == <<vpc, vTrace, vAudio, vReply, vReturned>>

VoiceFrame ==
    UNCHANGED <<versionVars, workerVars, ipcVars, queueVars, drainVars, toolVars, searchVars,
                taskVars, loopVars>>

\* the step of the current call ends it with r, or leads to the step next
VoiceStep(step, r, next) ==
    /\ vTrace' = Append(vTrace, [step |-> step, ok |-> ~r.null /\ ~r.threw])
    /\ IF r.null \/ r.threw
       THEN vpc' = "idle" /\ vReturned' = Append(vReturned, r)
       ELSE vpc' = next /\ UNCHANGED vReturned

\* a voice note arrives: transcribeVoiceMessage 21-25
TranscribeStart ==
    /\ vpc = "idle"
    /\ Len(vReturned) < MaxVoice
    /\ vpc' = "health"
    /\ vTrace' = <<>>
    /\ vAudio' = 0
    /\ vReply' = NoReply
    /\ UNCHANGED vReturned
    /\ VoiceFrame

\* 28-36
TranscribeHealth(o) ==
    /\ vpc = "health"
    /\ VoiceStep("health", OrNull(HealthBody(o)), "download")
    /\ UNCHANGED <<vAudio, vReply>>
    /\ VoiceFrame

\* 39-50
TranscribeDownload(o) ==
    /\ vpc = "download"
    /\ VoiceStep("download", DownloadResult(o), "post")
    /\ vAudio' = o.bytes
    /\ UNCHANGED vReply
    /\ VoiceFrame

\* 53-85
TranscribePost(reply) ==
    /\ vpc = "post"
    /\ vTrace' = Append(vTrace, [step |-> "transcribe",
                                 ok |-> reply.kind \in {"noText", "text"}])
    /\ vReply' = reply
    /\ vpc' = "idle"
    /\ vReturned' = Append(vReturned, OrNull(PostBody(reply)))
    /\ UNCHANGED vAudio
    /\ VoiceFrame

NextVoice ==
    \/ TranscribeStart
    \/ \E o \in HealthOutcomes : TranscribeHealth(o)
    \/ \E o \in DownloadOutcomes : TranscribeDownload(o)
    \/ \E reply \in Replies : TranscribePost(reply)

\* ==================================================== host: WhatsApp version
FALLBACK_VERSION == <<2, 3000, 1034270928>>
\* client revisions a fetch can deliver
Revisions == {1034270928, 1034270929}

\* JSON text is a sequence of tokens: a number is its own token, the other
\* tokens are the negated codes of '[', ']', '{', '}' and of the quote that
\* stands for a string among the elements
LBRACKET == -91
RBRACKET == -93
LBRACE == -123
RBRACE == -125
QUOTED == -34

\* the values the module handles: arrays of numbers and strings, an object,
\* undefined
Undefined == [kind |-> "undefined", items |-> <<>>]
ObjectValue == [kind |-> "object", items |-> <<>>]
ArrayValue(items) == [kind |-> "array", items |-> items]
\* typeof n === 'number'
IsNumber(n) == n >= 0

\* JSON.stringify
Stringify(v) ==
    IF v.kind = "array" THEN <<LBRACKET>> \o v.items \o <<RBRACKET>>
    ELSE <<LBRACE, RBRACE>>
\* JSON.parse: the value, or ok = FALSE where it throws
Parse(text) ==
    IF text = <<LBRACE, RBRACE>> THEN [ok |-> TRUE, value |-> ObjectValue]
    ELSE IF /\ Len(text) >= 2
            /\ text[1] = LBRACKET
            /\ text[Len(text)] = RBRACKET
            /\ \A k \in 2..(Len(text) - 1) : IsNumber(text[k]) \/ text[k] = QUOTED
    THEN [ok |-> TRUE, value |-> ArrayValue(SubSeq(text, 2, Len(text) - 1))]
    ELSE [ok |-> FALSE, value |-> Undefined]

\* a validity test that accepts every array
IsValidVersion_AnyArray(v) == v.kind = "array"

\* isValidVersion 22-28
IsValidVersion(v) ==
    /\ v.kind = "array"
    /\ Len(v.items) = 3
    /\ \A k \in 1..Len(v.items) : IsNumber(v.items[k])

\* store/wa-version.json
NoVersionFile == [exists |-> FALSE, text |-> <<>>]
VersionFile(text) == [exists |-> TRUE, text |-> text]

\* getWhatsAppVersion 33-42
GetWhatsAppVersion(file) ==
    LET parsed == Parse(file.text)
    IN  IF file.exists /\ parsed.ok /\ IsValidVersion(parsed.value)
        THEN parsed.value.items
        ELSE FALLBACK_VERSION

\* what fetchLatestWaWebVersion resolves to, or that it rejects
FetchedValues ==
    { Undefined, ObjectValue, ArrayValue(<<2, 3000>>), ArrayValue(<<2, 3000, QUOTED>>),
      ArrayValue(<<2, 3000, 1034270928, 0>>) }
    \cup { ArrayValue(<<2, 3000, r>>) : r \in Revisions }
FetchOutcomes ==
    { [kind |-> "throws", version |-> Undefined] }
    \cup { [kind |-> "result", version |-> v] : v \in FetchedValues }

\* fetchAndPersistVersion 48-60: the file it leaves and what it returns
NullVersion == [called |-> TRUE, null |-> TRUE, version |-> <<>>]
FetchAndPersistVersion(o, file) ==
    IF o.kind = "result" /\ o.version.kind # "undefined" /\ IsValidVersion(o.version)
    THEN [file |-> VersionFile(Stringify(o.version)),
          returned |-> [called |-> TRUE, null |-> FALSE, version |-> o.version.items]]
    ELSE [file |-> file, returned |-> NullVersion]

\* the files the store can hold when the host starts
StoreFiles ==
    { NoVersionFile, VersionFile(<<>>), VersionFile(<<LBRACKET, 2>>) }
    \cup { VersionFile(Stringify(v)) : v \in FetchedValues \ {Undefined} }

NotFetched == [called |-> FALSE, null |-> TRUE, version |-> <<>>]
NotGot == [called |-> FALSE, file |-> NoVersionFile, version |-> <<>>]

InitVersion ==
    /\ wPhase = "new"
    /\ wFile = NoVersionFile
    /\ wBefore = NoVersionFile
    /\ wFetched = NotFetched
    /\ wGot = NotGot
    /\ nFetches = 0

VersionFrame ==
    UNCHANGED <<voiceVars, workerVars, ipcVars, queueVars, drainVars, toolVars, searchVars,
                taskVars, loopVars>>

\* the host starts on a store directory in any of its states
VersionSetup(f) ==
    /\ wPhase = "new"
    /\ wPhase' = "ready"
    /\ wFile' = f
    /\ UNCHANGED <<wBefore, wFetched, wGot, nFetches>>
    /\ VersionFrame

\* the channel asks for the version to connect with
GetVersionCall ==
    /\ wPhase = "ready"
    /\ wGot' = [called |-> TRUE, file |-> wFile, version |-> GetWhatsAppVersion(wFile)]
    /\ UNCHANGED <<wPhase, wFile, wBefore, wFetched, nFetches>>
    /\ VersionFrame

\* a connection failed with 405: the channel fetches the latest version
FetchVersionCall(o) ==
    /\ wPhase = "ready"
    /\ nFetches < MaxFetches
    /\ LET r == FetchAndPersistVersion(o, wFile)
       IN  /\ wFile' = r.file
           /\ wFetched' = r.returned
    /\ wBefore' = wFile
    /\ wGot' = NotGot
    /\ nFetches' = nFetches + 1
    /\ UNCHANGED wPhase
    /\ VersionFrame

NextVersion ==
    \/ \E f \in StoreFiles : VersionSetup(f)
    \/ GetVersionCall
    \/ \E o \in FetchOutcomes : FetchVersionCall(o)

\* ------------------------------------------------------------ specification
Init ==
    /\ InitWorker /\ InitIpc /\ InitQueue /\ InitDrain /\ InitSearch /\ InitTasks /\ InitLoop
    /\ InitVoice /\ InitVersion

Next ==
    \/ \E sid \in SessionIds \cup {NoId}, parsable \in BOOLEAN : Spawn(sid, parsable)
    \/ HostSendMessage
    \/ HostWriteClose
    \/ MainParseStdin
    \/ MainSelectBackend
    \/ MainLoadSession
    \/ MainUnlinkClose
    \/ MainDrainPending
    \/ RunQueryStart
    \/ RunQueryIterTop
    \/ \E hasText \in BOOLEAN, nCalls \in 0..MaxToolCalls, finish \in {"stop", "tool_calls"} :
          ModelRespond(hasText, nCalls, finish)
    \/ \E has400 \in BOOLEAN : ModelReject(has400)
    \/ RunQueryExecTool
    \/ RunQuerySaveReturn
    \/ MainWriteOutput
    \/ MainCheckClose
    \/ MainWaitPoll
    \/ MainFatal

Spec == Init /\ [][Next]_vars

\* successive workers of the conversation
NextRestart ==
    \/ Next
    \/ \E sid \in SessionIds \cup {NoId}, parsable \in BOOLEAN : Respawn(sid, parsable)

SpecRestart == Init /\ [][NextRestart]_vars

\* one mailbox directory, its writer and its reader
SpecIpc == Init /\ [][NextIpc]_vars

\* the queue controller
SpecQueue == Init /\ [][NextQueue]_vars

SpecDrain == Init /\ [][NextDrain]_vars

\* one worker given any of the secret bundles, whose model calls the mailbox
\* tools, and a host that answers with follow-ups
NextTools ==
    \/ \E sid \in SessionIds \cup {NoId}, bundle \in SecretBundles : SpawnWith(sid, bundle)
    \/ HostSendMessage
    \/ MainParseStdin
    \/ MainSelectBackend
    \/ MainLoadSession
    \/ MainUnlinkClose
    \/ MainDrainPending
    \/ RunQueryStart
    \/ RunQueryIterTop
    \/ \E name \in IpcTools : ModelRespondTool(name)
    \/ \E hasText \in BOOLEAN : ModelRespond(hasText, 0, "stop")
    \/ RunQueryExecTool
    \/ RunQuerySaveReturn
    \/ MainWriteOutput
    \/ MainCheckClose
    \/ MainWaitPoll

SpecTools == Init /\ [][NextTools]_vars

SpecSearch == Init /\ [][NextSearch]_vars

SpecCache == Init /\ [][NextCache]_vars

\* one entry is removed from the registry
RemoveOnce(i) ==
    /\ nEdits = 0
    /\ RemoveEntry(i)

\* searches for the first query between which an entry is removed from the
\* registry and one is added to it
NextRemoval ==
    \/ SetupRegistry({"none"})
    \/ SearchTools(1)
    \/ \E i \in 1..(TOP_K + 1) : RemoveOnce(i)
    \/ \E d \in 1..NDescs : AddEntry(d)

SpecRemoval == Init /\ [][NextRemoval]_vars

SpecTasks == Init /\ [][NextTasks]_vars

\* the host starts one worker
SpawnOnce(sid) ==
    /\ nInv = 0
    /\ Spawn(sid, TRUE)

\* the host writes the close sentinel, once
HostWriteCloseOnce ==
    /\ nCloses = 0
    /\ HostWriteClose

\* a response with one call of any tool with any arguments
ModelRespondCall(name, args) ==
    /\ nModelCalls < MaxModelCalls
    /\ Len(callNames) < MaxDispatches
    /\ ModelAnswerArgs(FALSE, <<name>>, <<args>>, "tool_calls")

\* one worker whose model calls tools of every name with every kind of
\* arguments, or is rejected
NextDispatch ==
    \/ \E sid \in SessionIds \cup {NoId} : SpawnOnce(sid)
    \/ HostWriteCloseOnce
    \/ MainParseStdin
    \/ MainSelectBackend
    \/ MainLoadSession
    \/ MainUnlinkClose
    \/ MainDrainPending
    \/ RunQueryStart
    \/ RunQueryIterTop
    \/ \E name \in ToolNames, args \in ArgValues : ModelRespondCall(name, args)
    \/ \E hasText \in BOOLEAN : ModelRespond(hasText, 0, "stop")
    \/ \E has400 \in BOOLEAN : ModelReject(has400)
    \/ RunQueryExecTool
    \/ RunQuerySaveReturn
    \/ MainWriteOutput
    \/ MainCheckClose
    \/ MainWaitPoll
    \/ MainFatal

SpecDispatch == Init /\ [][NextDispatch]_vars

\* an earlier worker of the conversation left the close sentinel behind
HostLeftSentinel ==
    /\ pc = "none"
    /\ nCloses = 0
    /\ nCloses' = 1
    /\ inputDir' = PutFile(inputDir, CLOSE_NAME, SentinelData)
    /\ UNCHANGED <<pc, input, session, prompt, iter, lastText, toolCalls, closed, result,
                   stdout, exitCode, sessionFiles, hostSession, issuedIds, nInv,
                   nModelCalls, nCallIds, admitted, delivered, atClose, accum, loaded,
                   prevAccum, prevId, sentinelLive, closeObserved,
                   ipcVars, queueVars, extVars>>

\* one worker started on a directory that may hold a sentinel; the host
\* writes follow-up messages and no sentinel
NextStale ==
    \/ HostLeftSentinel
    \/ \E sid \in SessionIds \cup {NoId} : Spawn(sid, TRUE)
    \/ HostSendMessage
    \/ MainParseStdin
    \/ MainSelectBackend
    \/ MainLoadSession
    \/ MainUnlinkClose
    \/ MainDrainPending
    \/ RunQueryStart
    \/ RunQueryIterTop
    \/ \E hasText \in BOOLEAN, nCalls \in 0..MaxToolCalls, finish \in {"stop", "tool_calls"} :
          ModelRespond(hasText, nCalls, finish)
    \/ \E has400 \in BOOLEAN : ModelReject(has400)
    \/ RunQueryExecTool
    \/ RunQuerySaveReturn
    \/ MainWriteOutput
    \/ MainCheckClose
    \/ MainWaitPoll
    \/ MainFatal

SpecStale == Init /\ [][NextStale]_vars

SpecVoice == Init /\ [][NextVoice]_vars

SpecVersion == Init /\ [][NextVersion]_vars

\* a long query: the model asks for one more tool at every iteration, and
\* answers or fails in any way during the first and the last EdgeIters
\* iterations
AtEdge == iter < EdgeIters \/ iter >= MAX_TOOL_ITERATIONS - EdgeIters
ModelAsksForMore == ModelAnswer(FALSE, <<"Bash">>, "tool_calls")
ModelAnswerAtEdge(hasText, hasCall, finish) ==
    /\ AtEdge
    /\ ModelAnswer(hasText, IF hasCall THEN <<"Bash">> ELSE <<>>, finish)
ModelThrowAtEdge(has400) ==
    /\ AtEdge
    /\ ModelThrow(has400)

\* one worker, one prompt, and a host that may write the close sentinel
NextLoop ==
    \/ \E sid \in SessionIds \cup {NoId} : SpawnOnce(sid)
    \/ HostWriteCloseOnce
    \/ MainParseStdin
    \/ MainSelectBackend
    \/ MainLoadSession
    \/ MainUnlinkClose
    \/ MainDrainPending
    \/ RunQueryStart
    \/ RunQueryIterTop
    \/ ModelAsksForMore
    \/ \E hasText \in BOOLEAN, hasCall \in BOOLEAN, finish \in {"stop", "tool_calls"} :
          ModelAnswerAtEdge(hasText, hasCall, finish)
    \/ \E has400 \in BOOLEAN : ModelThrowAtEdge(has400)
    \/ RunQueryExecTool
    \/ RunQuerySaveReturn
    \/ MainWriteOutput
    \/ MainCheckClose
    \/ MainWaitPoll
    \/ MainFatal

SpecLoop == Init /\ [][NextLoop]_vars

\* the same under the assumption that the worker keeps running and that every
\* model call and every tool call returns
ModelCallReturns ==
    \/ ModelAsksForMore
    \/ \E hasText \in BOOLEAN, hasCall \in BOOLEAN, finish \in {"stop", "tool_calls"} :
          ModelAnswerAtEdge(hasText, hasCall, finish)
    \/ \E has400 \in BOOLEAN : ModelThrowAtEdge(has400)
SpecLoopFair ==
    /\ SpecLoop
    /\ WF_vars(RunQueryIterTop)
    /\ WF_vars(ModelCallReturns)
    /\ WF_vars(RunQueryExecTool)
    /\ WF_vars(RunQuerySaveReturn)


\* ================================================================== claims
\* the turns of the query in progress: everything after the last user turn
LastUserIndex(msgs) ==
    IF \E k \in 1..Len(msgs) : msgs[k].role = "user"
    THEN CHOOSE k \in 1..Len(msgs) :
            /\ msgs[k].role = "user"
            /\ \A j \in (k + 1)..Len(msgs) : msgs[j].role # "user"
    ELSE 0

\* every assistant turn of the query in progress that requested tool calls is
\* followed by the result turns of its calls, one per call, in call order
IterationsFinished(msgs) ==
    \A k \in (LastUserIndex(msgs) + 1)..Len(msgs) :
        (msgs[k].role = "assistant" /\ msgs[k].tool_calls # <<>>) =>
            \A j \in 1..Len(msgs[k].tool_calls) :
                /\ k + j <= Len(msgs)
                /\ msgs[k + j].role = "tool"
                /\ msgs[k + j].tool_call_id = msgs[k].tool_calls[j]

\* the reasoning loop has reached DONE: the model had the last word
QueryDone == session.messages # <<>> /\ Last(session.messages).role = "assistant"

\* C2 (as claimed): when the worker exits idle, i.e. on the close sentinel,
\* every follow-up the host had written by then has been delivered to it, in
\* admission order; none is left unread in the inbound directory.
C2_FollowUpsDeliveredBeforeExit ==
    (pc = "exited" /\ closeObserved) => delivered = atClose

C6_NoSentinelLost ==
    [][ (sentinelLive /\ Exists(inputDir, CLOSE_NAME) /\ ~Exists(inputDir', CLOSE_NAME))
            => closeObserved' ]_vars

\* C7 (as claimed): within one invocation the earlier turn sequence is a
\* prefix of the later one at every step.
C7_AppendOnly ==
    [][ (session.id # NoId /\ session'.id = session.id)
            => IsPrefix(session.messages, session'.messages) ]_vars

\* C7 (amended): within one invocation every step either extends the turn
\* sequence at its end or, when it has more than 10 turns, replaces it by its
\* 10 most recent turns (the trim after a 400 rejection); no turn is reordered
\* or rewritten.
C7_AppendOnlyExceptTrim ==
    [][ (session.id # NoId /\ session'.id = session.id)
            => \/ IsPrefix(session.messages, session'.messages)
               \/ /\ Len(session.messages) > TRIM_KEEP
                  /\ pc = "modelCall"
                  /\ session'.messages =
                        SubSeq(session.messages, Len(session.messages) - TRIM_KEEP + 1,
                               Len(session.messages)) ]_vars

\* C7 witness: the session has been trimmed: it is no longer everything that
\* was loaded and pushed.
C7_Witness ==
    /\ session.id # NoId
    /\ session.messages # accum
    /\ Len(session.messages) >= TRIM_KEEP

\* C8 (as claimed): what invocation N+1 loads for the session of invocation N
\* is every turn N loaded followed by every turn N appended.
C8_RoundTrip ==
    (pc = "unlinkClose" /\ nInv >= 2 /\ prevId # NoId /\ input.sessionId = prevId)
        => session.messages = prevAccum

\* C9: when the input has no sessionId, or no session file exists for it, the
\* session starts empty under an identifier that is not the given one and was
\* never issued before, and every output block of the process reports it.
C9_FreshSessionReported ==
    (session.id # NoId /\ (input.sessionId = NoId \/ ~sessionFiles[input.sessionId].exists))
        => /\ session.id # input.sessionId
           /\ loaded = <<>>
           /\ \A k \in 1..Len(stdout) : stdout[k].newSessionId = session.id
           /\ stdout # <<>> => hostSession = session.id

\* C9 witness: the given sessionId could not be loaded, and the process has
\* emitted a success block and then an error block.
C9_Witness ==
    /\ pc = "exited"
    /\ input.sessionId # NoId
    /\ ~sessionFiles[input.sessionId].exists
    /\ Len(stdout) >= 2
    /\ Last(stdout).status = "error"

\* C10: the process has exit code 0 exactly when its last output block has
\* status success, and a non-zero exit code exactly when it has status error.
C10_ExitCodeMatchesLastBlock ==
    pc = "exited" =>
        /\ stdout # <<>>
        /\ exitCode = 0 <=> Last(stdout).status = "success"
        /\ exitCode # 0 <=> Last(stdout).status = "error"

\* C10 witness: an error exit after an earlier success block.
C10_Witness ==
    /\ pc = "exited"
    /\ exitCode = 1
    /\ Len(stdout) >= 2
    /\ stdout[1].status = "success"


\* C3: the reader never reads a partially written file: every content it has
\* read is complete, its listing holds no temporary name, and every file
\* whose name ends in '.json' is complete.
C3_ReaderNeverSeesPartialWrite ==
    /\ \A k \in 1..Len(readLog) : readLog[k].written = MsgChunks
    /\ \A k \in 1..Len(rlist) : ~EndsWith(rlist[k], TMP_EXT)
    /\ \A f \in ipcDir : EndsWith(f.name, JSON_EXT) => f.data.written = MsgChunks

\* C3 witness: a writer was killed in the middle of a write and its partial
\* temporary file is in the directory, and the reader has read a message.
C3_Witness ==
    /\ nKills >= 1
    /\ \E f \in ipcDir : f.data.written < MsgChunks
    /\ readLog # <<>>

\* C4 (as claimed): the reader processes the messages of the directory in the
\* order in which writeIpcFile wrote them.
C4_ProcessedInWriteOrder ==
    \A i, j \in 1..Len(readLog) : i < j => readLog[i].text < readLog[j].text


\* C1: at every instant a conversation has at most one live Worker
\* Invocation, and a Work Unit admitted while its worker is live becomes an
\* inbound Mailbox Message: inbound messages exist only beside a live worker.
C1_AtMostOneWorkerPerConversation ==
    \A c \in Convs :
        /\ Cardinality(QLive(c)) <= 1
        /\ qInbox[c] # <<>> => Cardinality(QLive(c)) = 1

\* C1 witness: a conversation whose worker is live has been admitted a second
\* Work Unit, which sits in its inbound mailbox, after an earlier worker of
\* the conversation failed and a retry timer is still pending.
C1_Witness ==
    \E c \in Convs :
        /\ QLive(c) # {}
        /\ qInbox[c] # <<>>
        /\ qRetry[c] > 0

\* the files of the current listing that the loop has visited
DrainVisited == SubSeq(dListed, 1, Len(dListed) - Len(dFiles))

\* C11: every file of the listing that drainIpcInput has visited is gone from
\* the inbound directory whether or not it parsed, the messages collected are
\* exactly the texts of the visited files that are well-formed follow-ups, in
\* listing order (a malformed file contributes none and does not stop the
\* files after it), and no file is read twice.
C11_MalformedDeletedAndSkipped ==
    /\ \A k \in 1..Len(DrainVisited) : ~Exists(dDir, DrainVisited[k])
    /\ dMessages = DrainTexts(dAll, DrainVisited)
    /\ \A i, j \in 1..Len(dReads) : i # j => dReads[i] # dReads[j]
    /\ dpc = "idle" => (DrainVisited = dListed /\ dReturned = dMessages)

\* C11 witness: a drain has returned whose listing began with a malformed
\* file followed by a follow-up, and it returned that follow-up's text.
C11_Witness ==
    /\ dpc = "idle"
    /\ Len(dListed) >= 2
    /\ FileAt(dAll, dListed[1]).data = MalformedData
    /\ dReturned # <<>>
    /\ dDir = {}

\* the delays the architecture notes list for MAX_RETRIES = 5
ClaimedDelays == <<5, 10, 20, 40, 80>>

\* C12: the retry delays scheduled for a conversation since its last success
\* are the first delays of 5s, 10s, 20s, 40s, 80s in that order (doubling from
\* 5s, never decreasing), at most MAX_RETRIES of them, and every pending retry
\* carries one of these delays.
C12_RetryDelaysDouble ==
    /\ \A c \in Convs :
          /\ Len(qDelays[c]) <= MAX_RETRIES
          /\ \A k \in 1..Len(qDelays[c]) : qDelays[c][k] = ClaimedDelays[k]
          /\ \A k \in 2..Len(qDelays[c]) : qDelays[c][k] >= qDelays[c][k - 1]
    /\ \A t \in qTimer : t.delay \in Range(ClaimedDelays)

\* C12 witness: a worker has failed MAX_RETRIES times in a row and the fifth
\* retry, 80s, is pending.
C12_Witness ==
    \E c \in Convs :
        /\ qDelays[c] = ClaimedDelays
        /\ \E t \in qTimer : t.conv = c /\ t.delay = 80

\* the Work Units named by the failure notifications
GaveUpUnits == { qGaveUp[k].unit : k \in 1..Len(qGaveUp) }

\* C13: the failure notification is sent at most once per Work Unit, when a
\* worker fails with the retry counter at the ceiling, and carries the error
\* of that last failure; the unit is then gone from the controller (not
\* running, not queued, no retry pending), the counter is back to zero, and a
\* conversation with queued units and no live worker is in the pending list.
C13_GiveUpOnceAndMoveOn ==
    /\ [](/\ \A i, j \in 1..Len(qGaveUp) : i # j => qGaveUp[i].unit # qGaveUp[j].unit
          /\ \A u \in GaveUpUnits :
                /\ \A w \in qWorkers : w.unit # u
                /\ \A t \in qTimer : t.unit # u
                /\ \A c \in Convs : u \notin Range(qQueue[c])
          /\ \A c \in Convs : (qQueue[c] # <<>> /\ QLive(c) = {}) => c \in Range(qWaiting))
    /\ [][Len(qGaveUp') # Len(qGaveUp) =>
            /\ Len(qGaveUp') = Len(qGaveUp) + 1
            /\ \E w \in qWorkers :
                  /\ Last(qGaveUp') = [conv |-> w.conv, unit |-> w.unit,
                                       error |-> qLastErr'[w.conv]]
                  /\ qLastErr'[w.conv] = MAX_RETRIES + 1
                  /\ qRetry[w.conv] = MAX_RETRIES
                  /\ qRetry'[w.conv] = 0]_vars

\* C13 witness: after the notification for a Work Unit of a conversation, a
\* Work Unit admitted later for the same conversation is running.
C13_Witness ==
    \E k \in 1..Len(qGaveUp), w \in qWorkers :
        /\ w.conv = qGaveUp[k].conv
        /\ w.unit > qGaveUp[k].unit

\* C14: the retry counter counts the retries scheduled since the last success
\* (or give-up), never exceeds the ceiling, is zero whenever the last exit of
\* the conversation was a success, and the first retry after a reset has the
\* initial delay.
C14_RetryCounter ==
    \A c \in Convs :
        /\ qRetry[c] <= MAX_RETRIES
        /\ qRetry[c] = Len(qDelays[c])
        /\ qLastErr[c] = 0 => qRetry[c] = 0
        /\ qRetry[c] >= 1 => (qDelays[c][1] = BASE_RETRY_SECONDS /\ qLastErr[c] = qRetry[c])

\* C14 witness: a conversation's worker failed, its retry succeeded, and the
\* next worker failed: the counter is 1 again and the delay is 5s.
C14_Witness ==
    /\ qSeen = 1
    /\ qFails >= 2
    /\ qGaveUp = <<>>
    /\ qDone # {}
    /\ qRetry[1] = 1
    /\ qDelays[1] = <<BASE_RETRY_SECONDS>>

\* C15: the live Worker Invocations never outnumber the concurrency cap, no
\* conversation waits while a slot is free, the pending list holds a
\* conversation at most once, and a conversation leaves the pending list only
\* from its head, to be started, the others keeping their order.
C15_CapAndFifo ==
    /\ [](/\ Cardinality(qWorkers) <= qCap
          /\ qWaiting # <<>> => Cardinality(qWorkers) = qCap
          /\ \A i, j \in 1..Len(qWaiting) : i # j => qWaiting[i] # qWaiting[j])
    /\ [][(\E n \in Range(qWaiting) : n \notin Range(qWaiting')) =>
            /\ Head(qWaiting) \notin Range(qWaiting')
            /\ IsPrefix(Tail(qWaiting), qWaiting')
            /\ QLive(Head(qWaiting)) = {}
            /\ \E w \in qWorkers' : w.conv = Head(qWaiting) /\ w.unit = Head(qQueue[w.conv])]_vars

\* C15 witness: with a cap of one, the first conversation's worker has exited,
\* the second conversation has been started and the third still waits.
C15_Witness ==
    /\ qCap = 1
    /\ qFails = 0
    /\ \E w \in qDone : w.conv = 1
    /\ QLive(2) # {}
    /\ qWaiting = <<3>>

\* positions of main() and runQuery() from the session load on
QueryPcs == {"loadSession", "unlinkClose", "drainPending", "runQuery", "iterTop", "modelCall",
             "tools", "saveReturn", "writeOutput", "checkClose", "wait", "fatal"}

\* the numbers a turn of a session file carries
TurnValues(m) == Range(m.content) \cup Range(m.tool_calls) \cup {m.tool_call_id}

ExecutedCalls(name) ==
    { k \in 1..Len(accum) : accum[k].role = "tool" /\ CallName(accum[k].tool_call_id) = name }

\* C17 (as claimed): the text directory holds only text messages, one per
\* send_message call, and the voice directory holds one voice message per
\* send_voice call.
C17_OneDirectoryPerKind ==
    /\ \A k \in 1..Len(messagesDir) : messagesDir[k].type = "message"
    /\ \A k \in 1..Len(voiceDir) : voiceDir[k].type = "voice_message"
    /\ Len(voiceDir) = Cardinality(ExecutedCalls("send_voice"))
    /\ Cardinality({ k \in 1..Len(messagesDir) : messagesDir[k].lead = "" })
          = Cardinality(ExecutedCalls("send_message"))

\* C18 (as claimed): the tool result of an ask_boss call is the text of a
\* reply the worker has taken from the inbound directory.
C18_AskBossReturnsReply ==
    \A k \in ExecutedCalls("ask_boss") :
        /\ Len(accum[k].content) = 1
        /\ accum[k].content[1] \in Range(delivered)

\* ------------------------------------------------------ workflow resolver
\* the vector the last search ranked the entry of this name by
CachedVector(cache, name) ==
    cache.entries[CHOOSE k \in 1..Len(cache.entries) : cache.entries[k].name = name].embedding
\* the similarity the last search computed for a registry entry
ScoreOf(e) == Cosine(EmbedQuery(sQuery), CachedVector(sCache, e.name))
RegistryEntries == { sRegistry[i] : i \in 1..Len(sRegistry) }
ResultEntries == { sResult[i] : i \in 1..Len(sResult) }

C20_StaleVectorNotReused ==
    searched =>
        /\ \A e \in RegistryEntries : CachedVector(sCache, e.name) = EmbedEntry(e)
        /\ \A k \in 1..Len(sCache.entries) :
               \E e \in RegistryEntries : e.name = sCache.entries[k].name

\* ---------------------------------------------------------------- backend
\* C21: a worker whose secret bundle holds a GEMINI_API_KEY selects the
\* Gemini backend, whatever else the bundle holds.
C21_GeminiKeyPriority ==
    (backend # "" /\ stdinSecrets.GEMINI_API_KEY # 0) => backend = "gemini"

\* the bundle holds an OpenRouter key other than 'ollama' and 'no-key'
UsableOpenRouterKey(b) == b.OPENROUTER_API_KEY \notin {0, OLLAMA, NO_KEY}

OwnLines(snapshot, g) ==
    LET Own(t) == t.groupFolder = g
        own == SelectSeq(snapshot.tasks, Own)
    IN  [k \in 1..Len(own) |-> TaskLine(own[k])]
AllLines(snapshot) == [k \in 1..Len(snapshot.tasks) |-> TaskLine(snapshot.tasks[k])]

\* C22: for a non-main invocation list_tasks returns the tasks of its own
\* group and no other, and returns the same for every snapshot that holds the
\* same tasks of that group, whatever tasks of other groups it holds; a main
\* invocation is returned every task of the snapshot.
C22_TasksOfOwnGroupOnly ==
    tPhase = "listed" =>
        IF tInput.isMain
        THEN tResult = (IF AllLines(tSnapshot) = <<>> THEN NoTasksFound ELSE AllLines(tSnapshot))
        ELSE /\ tResult = (IF OwnLines(tSnapshot, tInput.groupFolder) = <<>> THEN NoTasksFound
                           ELSE OwnLines(tSnapshot, tInput.groupFolder))
             /\ \A other \in Snapshots :
                    OwnLines(other, tInput.groupFolder) = OwnLines(tSnapshot, tInput.groupFolder)
                        => ListTasks(other, tInput) = tResult

\* a non-main invocation listed a snapshot that holds a task of its own group
\* and a task of another group
C22_Witness ==
    /\ tPhase = "listed"
    /\ ~tInput.isMain
    /\ tResult # NoTasksFound
    /\ \E k \in 1..Len(tSnapshot.tasks) : tSnapshot.tasks[k].groupFolder # tInput.groupFolder

\* ------------------------------------------------------------ tool dispatch
\* the index of the last assistant turn of a history, 0 if it has none
LastAssistantIndex(msgs) ==
    IF \E i \in 1..Len(msgs) : msgs[i].role = "assistant"
    THEN CHOOSE i \in 1..Len(msgs) :
             /\ msgs[i].role = "assistant"
             /\ \A j \in (i + 1)..Len(msgs) : msgs[j].role # "assistant"
    ELSE 0
\* the tool turns that follow turn i of a history without a gap
ResultsAfter(msgs, i) ==
    LET n == CHOOSE n \in 0..(Len(msgs) - i) :
                 /\ \A k \in 1..n : msgs[i + k].role = "tool"
                 /\ (i + n < Len(msgs) => msgs[i + n + 1].role # "tool")
    IN  [k \in 1..n |-> msgs[i + k].tool_call_id]

\* C24: the result turns that follow a model response are those of the calls
\* it requested, one each, in the order it returned them; and no model call is
\* issued while a call of the previous response has no result turn.
C24_ResultsInOrderBeforeNextCall ==
    /\ \A i \in (Len(loaded) + 1)..Len(accum) :
           accum[i].role = "assistant" => IsPrefix(ResultsAfter(accum, i), accum[i].tool_calls)
    /\ pc = "modelCall" =>
           LET i == LastAssistantIndex(session.messages)
           IN  i > 0 => ResultsAfter(session.messages, i) = session.messages[i].tool_calls

\* ---------------------------------------------------------- session pointer
\* C30: every output block that carries a newSessionId names a session whose
\* file exists, so that an invocation given that identifier loads it.
C30_ReportedSessionIsSaved ==
    \A k \in 1..Len(stdout) :
        stdout[k].newSessionId # NoId => sessionFiles[stdout[k].newSessionId].exists

\* ------------------------------------------------------------- completion
\* the last response to the prompt had no tool calls or finish_reason 'stop'
ResponseEndsQuery ==
    /\ lastChoice # NoChoice
    /\ (lastChoice.calls = 0 \/ lastChoice.finish = "stop")

\* C25: once a response to the prompt has no tool calls or carries
\* finish_reason 'stop', the query is over: that response is the last turn of
\* the history until the next prompt, none of its tool calls is dispatched,
\* and no model call, answered or rejected, follows it for that prompt.
C25_DoneAtFirstFinalResponse ==
    ResponseEndsQuery =>
        /\ pc \in {"saveReturn", "writeOutput", "checkClose", "wait", "runQuery", "exited"}
        /\ toolCalls = <<>>
        /\ Last(accum).role = "assistant"
        /\ Len(Last(accum).tool_calls) = lastChoice.calls
        /\ lastReject = NoReject

\* a response with a tool call and finish_reason 'stop' ended its query, and
\* the worker waits for the next prompt
C25_Witness ==
    /\ ResponseEndsQuery
    /\ lastChoice.calls > 0
    /\ pc = "wait"


QueryText(msgs) ==
    LET A == {i \in (LastUserIndex(msgs) + 1)..Len(msgs) :
                 msgs[i].role = "assistant" /\ msgs[i].content # <<>>}
    IN  IF A = {} THEN <<>>
        ELSE msgs[CHOOSE i \in A : \A j \in A : j <= i].content

C26_AtMostSixtyCalls ==
    /\ queryCalls <= MAX_TOOL_ITERATIONS
    /\ pc \in {"modelCall", "tools"} => iter < MAX_TOOL_ITERATIONS
    /\ pc = "modelCall" => queryCalls < MAX_TOOL_ITERATIONS
    /\ pc = "writeOutput" => result = QueryText(accum)
    /\ pc = "checkClose" /\ stdout # <<>> =>
          /\ Last(stdout).status = "success"
          /\ Last(stdout).result = QueryText(accum)

\* C26: for every prompt runQuery issues at most MAX_TOOL_ITERATIONS model
\* calls, also when every response asks for more tools; what it returns is the
\* last non-empty assistant text of that query, or none, in a success block;
\* and if every model call and tool call returns, a query that started ends,
\* with an output block or with the fatal error of a rejected call
C26_BoundedQuery ==
    /\ []C26_AtMostSixtyCalls
    /\ (pc = "iterTop") ~> (pc \in {"writeOutput", "fatal"})

\* sixty calls were issued, the last response still asked for a tool, and the
\* query returns the text of an earlier response
C26_Witness ==
    /\ pc = "writeOutput"
    /\ queryCalls = MAX_TOOL_ITERATIONS
    /\ ~closed
    /\ Last(accum).role = "tool"
    /\ result # <<>>

\* the query was cut short by the close sentinel
ClosedEarly == closed /\ pc \in {"writeOutput", "checkClose", "wait", "exited"}

\* C23: after a model call rejected with a 400 on a history of more than 10
\* turns, the history is the most recent 10 turns and the call is issued
\* again (unless the close sentinel ends the query first); a rejection of the
\* retried call, and any rejection on 10 or fewer turns or without a 400,
\* makes the worker fail
C23_TrimAndRetryOnce ==
    /\ RetryDue /\ ~ClosedEarly =>
          /\ pc \in {"iterTop", "modelCall"}
          /\ pc = "iterTop" => iter < MAX_TOOL_ITERATIONS
          /\ Len(session.messages) = TRIM_KEEP
    /\ lastReject # NoReject /\ ~RetryDue => pc \in {"fatal", "exited"}
    /\ lastReject.retry => pc \in {"fatal", "exited"}

\* the call fails: no such tool, arguments that are not an object, or a tool
\* whose own work fails
CallFails(id) ==
    \/ CallName(id) \notin KnownTools
    \/ CallArgs(id).form = "null"
    \/ CallArgs(id).throws
ErrorResults == {RESULT_UNKNOWN_TOOL, RESULT_ERROR_EXECUTING, RESULT_EXIT_ERROR}
\* the tool turns pushed by this process
ToolTurns == {k \in 1..Len(accum) : accum[k].role = "tool"}
Pending == {toolCalls[k] : k \in 1..Len(toolCalls)}

\* C27: whatever the tool name and the argument text of a call, its dispatch
\* ends with a result turn for that call, whose content is a non-empty string
\* and describes the error when the call fails; the loop then goes on, and
\* the worker fails only when a model call was rejected
C27_DispatchNeverCrashes ==
    /\ pc = "fatal" \/ exitCode = 1 => lastReject # NoReject
    /\ pc = "tools" => toolCalls # <<>>
    /\ \A id \in 1..Len(callNames) :
          id \notin Pending =>
             \E k \in ToolTurns :
                /\ accum[k].tool_call_id = id
                /\ accum[k].content # <<>>
                /\ CallFails(id) <=> accum[k].content[1] \in ErrorResults

\* after a call with arguments that are not an object got its error turn,
\* the loop is at the next model call
C27_Witness ==
    /\ pc = "modelCall"
    /\ \E k \in ToolTurns :
          /\ accum[k].content = <<RESULT_ERROR_EXECUTING, ToolCode(CallName(accum[k].tool_call_id))>>
          /\ CallArgs(accum[k].tool_call_id).form = "null"
          /\ k = Len(accum)

\* the capabilities whose effect is a mailbox message
SideEffecting == {"send_message", "ask_boss"} \cup TaskTools
\* a step that dispatches a call of one of them and pushes its result turn
SideEffectStep ==
    /\ pc = "tools"
    /\ toolCalls # <<>>
    /\ accum' # accum
    /\ CallName(Head(toolCalls)) \in SideEffecting
Tokens(str) == {str[k] : k \in 1..Len(str)}
\* what the call asked to be delivered, as it stands in the file written
PayloadOf(file) ==
    IF file.type \in {"message", "voice_message"} THEN {file.text}
    ELSE IF file.type = "schedule_task" THEN {file.prompt}
    ELSE {file.taskId}
\* the text, question or prompt in the file written, if the call gave one
TextOf(file) ==
    IF file.type \in {"message", "voice_message"} THEN {file.text} \ {0}
    ELSE IF file.type = "schedule_task" THEN {file.prompt} \ {0}
    ELSE {}
\* the step pushes one result turn and leaves the rest of the history alone
OnlyResultTurnPushed ==
    /\ session'.id = session.id
    /\ Len(session'.messages) = Len(session.messages) + 1
    /\ SubSeq(session'.messages, 1, Len(session.messages)) = session.messages
    /\ Last(session'.messages).role = "tool"
    /\ Last(session'.messages).tool_call_id = Head(toolCalls)
\* the step appends one file to the directory of the tool and changes no
\* other directory
OneFileInOwnDirectory ==
    IF CallName(Head(toolCalls)) \in TaskTools
    THEN /\ Len(tasksDir') = Len(tasksDir) + 1
         /\ SubSeq(tasksDir', 1, Len(tasksDir)) = tasksDir
         /\ UNCHANGED <<messagesDir, voiceDir, inputDir>>
    ELSE /\ Len(messagesDir') = Len(messagesDir) + 1
         /\ SubSeq(messagesDir', 1, Len(messagesDir)) = messagesDir
         /\ UNCHANGED <<tasksDir, voiceDir, inputDir>>
WrittenFile ==
    IF CallName(Head(toolCalls)) \in TaskTools THEN Last(tasksDir') ELSE Last(messagesDir')

\* C28 as stated: every call of a side-effecting capability writes exactly
\* one mailbox file and returns a string that has nothing of what the file
\* carries for the call; the history gets the result turn only and no other
\* mailbox directory changes
C28_OneFileAndBareAck ==
    [][SideEffectStep =>
         /\ OneFileInOwnDirectory
         /\ Tokens(Last(accum').content) \cap PayloadOf(WrittenFile) = {}
         /\ OnlyResultTurnPushed]_vars

\* C28 amended: a call that does not fail writes exactly one file, to the
\* messages directory for send_message and ask_boss and to the tasks directory
\* for the task tools, and returns a fixed string, the file name for
\* schedule_task, or the tool name and the task id for pause_task, resume_task
\* and cancel_task, never the text, question or prompt; a call that fails
\* writes nothing and returns an error string; in both cases the history gets
\* the result turn only and no other mailbox directory changes
C28_OneFileUnlessFailedAckWithoutText ==
    [][SideEffectStep =>
         LET id   == Head(toolCalls)
             name == CallName(id)
             ack  == Last(accum').content
         IN  /\ OnlyResultTurnPushed
             /\ IF CallFails(id)
                THEN /\ UNCHANGED <<messagesDir, tasksDir, voiceDir, inputDir>>
                     /\ ack = <<RESULT_ERROR_EXECUTING, ToolCode(name)>>
                ELSE /\ OneFileInOwnDirectory
                     /\ Tokens(ack) \cap TextOf(WrittenFile) = {}
                     /\ name = "send_message" => ack = <<RESULT_MESSAGE_SENT>>
                     /\ name = "ask_boss" => ack = <<RESULT_QUESTION_SENT>>
                     /\ name = "schedule_task" =>
                           ack = <<RESULT_TASK_SCHEDULED, FileName(Len(tasksDir'))>>
                     /\ name \in TaskTools \ {"schedule_task"} =>
                           ack = <<ToolCode(name), RESULT_REQUESTED_FOR_TASK,
                                   WrittenFile.taskId>>]_vars

\* a pause_task call wrote its request and got the tool name and the task id
\* back
C28_Witness ==
    /\ Len(tasksDir) = 1
    /\ tasksDir[1].type = "pause_task"
    /\ tasksDir[1].taskId # 0
    /\ messagesDir = <<>>
    /\ accum # <<>>
    /\ Last(accum).content =
          <<ToolCode("pause_task"), RESULT_REQUESTED_FOR_TASK, tasksDir[1].taskId>>

\* turn i of a history requests calls and is followed by their result turns,
\* one each, in call order, and by no further result turn
CallsAnswered(msgs, i) ==
    LET calls == msgs[i].tool_calls
    IN  /\ i + Len(calls) <= Len(msgs)
        /\ \A k \in 1..Len(calls) :
              /\ msgs[i + k].role = "tool"
              /\ msgs[i + k].tool_call_id = calls[k]
        /\ i + Len(calls) < Len(msgs) => msgs[i + Len(calls) + 1].role # "tool"
\* turn j of a history is the result turn of a call requested by the closest
\* assistant turn before it
ResultRequested(msgs, j) ==
    \E i \in 1..(j - 1) :
        /\ msgs[i].role = "assistant"
        /\ j - i <= Len(msgs[i].tool_calls)
        /\ msgs[i].tool_calls[j - i] = msgs[j].tool_call_id
        /\ \A k \in (i + 1)..(j - 1) : msgs[k].role = "tool"
PairedHistory(msgs) ==
    \A i \in 1..Len(msgs) :
        /\ msgs[i].role = "assistant" /\ msgs[i].tool_calls # <<>> => CallsAnswered(msgs, i)
        /\ msgs[i].role = "tool" => ResultRequested(msgs, i)

\* C31: in every session file, each assistant turn that requests calls is
\* followed by one result turn per call, with the call's id and in call order,
\* before any other turn, and every result turn follows the assistant turn
\* that requested it
C31_SavedHistoryIsPaired ==
    \A id \in SessionIds :
        sessionFiles[id].exists => PairedHistory(sessionFiles[id].messages)

\* a worker that has exited with code 0 saw the sentinel; one that exited
\* with code 1 wrote an error block last
ExitedForAReason ==
    pc = "exited" =>
        /\ exitCode \in {0, 1}
        /\ exitCode = 0 => closeObserved
        /\ exitCode = 1 => stdout # <<>> /\ Last(stdout).status = "error"
\* shouldClose returns true only on a sentinel that exists, and removes it
ObservedMeansRemoved ==
    ~closeObserved /\ closeObserved' =>
        /\ Exists(inputDir, CLOSE_NAME)
        /\ ~Exists(inputDir', CLOSE_NAME)
\* the worker leaves the poll-wait only for a sentinel, by exiting with code
\* 0, or for an inbound message, by starting the next query
LeavesWaitForAReason ==
    pc = "wait" /\ pc' # "wait" =>
        \/ /\ Exists(inputDir, CLOSE_NAME)
           /\ pc' = "exited"
           /\ exitCode' = 0
        \/ /\ ~Exists(inputDir, CLOSE_NAME)
           /\ DrainIpcInput(inputDir) # <<>>
           /\ pc' = "runQuery"
           /\ prompt' = DrainIpcInput(inputDir)

\* C32: the worker exits with code 0 only after shouldClose found the close
\* sentinel and removed it; with no sentinel and no fatal error it does not
\* exit, and it stays in the poll-wait until an inbound message arrives
C32_ExitsOnlyOnSentinel ==
    /\ []ExitedForAReason
    /\ [][ObservedMeansRemoved /\ LeavesWaitForAReason]_vars

\* the worker waited between turns, then found the sentinel and exited
C32_Witness ==
    /\ pc = "exited"
    /\ exitCode = 0
    /\ closeObserved
    /\ ~closed
    /\ Len(stdout) = 2
    /\ ~Exists(inputDir, CLOSE_NAME)

\* the worker is past the startup of main
PastStartup ==
    pc \in {"drainPending", "runQuery", "iterTop", "modelCall", "tools", "saveReturn",
            "writeOutput", "checkClose", "wait", "fatal"}

\* C33: a close sentinel that was in the inbound directory before the worker
\* started, and is not written again, is gone after startup; the worker never
\* sees it, no query is cut short, every output block follows a model call,
\* and the worker does not exit with code 0
C33_StaleSentinelIgnored ==
    /\ ~closeObserved
    /\ ~closed
    /\ PastStartup => ~Exists(inputDir, CLOSE_NAME)
    /\ pc \in {"writeOutput", "checkClose", "wait"} => queryCalls >= 1
    /\ pc = "exited" => exitCode = 1

\* a sentinel was left, and the worker answered its first prompt after a
\* model call and waits for the next message
C33_Witness ==
    /\ nCloses = 1
    /\ pc = "wait"
    /\ Len(stdout) = 1
    /\ stdout[1].status = "success"
    /\ nModelCalls >= 1

\* the names a cache file holds a vector for
CachedNames(file) == {file.entries[k].name : k \in 1..Len(file.entries)}
\* the cache file is missing or unreadable, was built by another embedding
\* model, or lacks a name of the registry
CacheIsStale(reg, file) ==
    \/ ~file.exists
    \/ ~file.readable
    \/ file.model # EMBED_MODEL
    \/ \E i \in 1..Len(reg) : reg[i].name \notin CachedNames(file)
\* the cache holds the current model and one freshly computed vector per
\* entry of the registry, in registry order
BuiltFrom(cache, reg) ==
    /\ cache.exists /\ cache.readable
    /\ cache.model = EMBED_MODEL
    /\ Len(cache.entries) = Len(reg)
    /\ \A i \in 1..Len(reg) :
          cache.entries[i] = [name |-> reg[i].name, embedding |-> EmbedEntry(reg[i])]

StaleVectorScores ==
    \E k \in 1..Len(sCache.entries) :
        /\ \A i \in 1..Len(sRegistry) : sRegistry[i].name # sCache.entries[k].name
        /\ AboveThreshold(Cosine(EmbedQuery(sQuery), sCache.entries[k].embedding))

\* C35: every entry a search returns is an entry of the registry the search
\* was given, as it stands in that registry, also after entries were edited
\* or removed and the cache still holds vectors of removed entries
C35_ResultsAreRegistryEntries ==
    searched =>
        \A i \in 1..Len(sResult) :
            \E j \in 1..Len(sRegistry) : sResult[i] = sRegistry[j]

\* a search over a cache with a well-scoring vector of a removed entry
\* returned entries
C35_Witness ==
    /\ searched
    /\ sRegistry = registry
    /\ nEdits > 0
    /\ StaleVectorScores
    /\ sResult # <<>>

\* ------------------------------------------------------ voice transcription
\* the steps of transcribeVoiceMessage, in order
TranscribeSteps == <<"health", "download", "transcribe">>
\* a text of blanks only
Blank(t) == \A k \in 1..Len(t) : t[k] = SPACE
\* t without the blanks around it
Stripped(t, r) ==
    /\ r # <<>>
    /\ r[1] # SPACE
    /\ r[Len(r)] # SPACE
    /\ \E a, b \in 1..Len(t) :
          /\ r = SubSeq(t, a, b)
          /\ Blank(SubSeq(t, 1, a - 1))
          /\ Blank(SubSeq(t, b + 1, Len(t)))
AllThreeSucceeded == Len(vTrace) = 3 /\ \A k \in 1..3 : vTrace[k].ok

\* C37: a call attempts the health check, the download and the transcription
\* request in this order and never a step after one that failed; no call
\* throws; a call that is over returned a transcript exactly when all three
\* steps succeeded and the text of the reply is not blank, that transcript
\* being the text without the blanks around it, and returned null otherwise
C37_TranscriptOrNull ==
    /\ Len(vTrace) <= 3
    /\ \A k \in 1..Len(vTrace) : vTrace[k].step = TranscribeSteps[k]
    /\ \A k \in 1..(Len(vTrace) - 1) : vTrace[k].ok
    /\ \A k \in 1..Len(vReturned) : ~vReturned[k].threw
    /\ (vpc = "idle" /\ vReturned # <<>>) =>
           LET r == vReturned[Len(vReturned)]
           IN  /\ ~r.null <=> (AllThreeSucceeded /\ ~Blank(vReply.text))
               /\ ~r.null => Stripped(vReply.text, r.text)
               /\ r.null => r.text = <<>>
\* after a call that returned null, a call returned a transcript that is
\* shorter than the text of the reply
C37_Witness ==
    /\ vpc = "idle"
    /\ Len(vReturned) = 2
    /\ vReturned[1].null
    /\ ~vReturned[2].null
    /\ AllThreeSucceeded
    /\ Len(vReturned[2].text) < Len(vReply.text)
    /\ vAudio > 0

\* ---------------------------------------------------------- WhatsApp version
\* the triples of numbers, and the file that holds the triple t
VersionNumbers == {0, 2, 3000} \cup Revisions
HoldsTriple(file, t) ==
    /\ file.exists
    /\ file.text = <<LBRACKET, t[1], t[2], t[3], RBRACKET>>

\* C38: getWhatsAppVersion returns the triple of numbers the file holds and
\* FALLBACK_VERSION when the file holds none; after fetchAndPersistVersion
\* returned a version, getWhatsAppVersion returns that version; when
\* fetchAndPersistVersion returned null, the file is as it was before the call
C38_VersionResolution ==
    /\ wGot.called =>
           IF \E t \in [1..3 -> VersionNumbers] : HoldsTriple(wGot.file, t)
           THEN HoldsTriple(wGot.file, wGot.version)
           ELSE wGot.version = FALLBACK_VERSION
    /\ (wGot.called /\ wFetched.called /\ ~wFetched.null) => wGot.version = wFetched.version
    /\ (wFetched.called /\ wFetched.null) => wFile = wBefore
\* a fetch replaced a file that held no valid version, and the version read
\* afterwards is the fetched one and not the fallback
C38_Witness ==
    /\ wGot.called
    /\ wFetched.called
    /\ ~wFetched.null
    /\ wBefore.exists
    /\ wBefore # wFile
    /\ wGot.version = wFetched.version
    /\ wGot.version # FALLBACK_VERSION
    /\ nFetches = 2

====
